---- MODULE Spec2Model ----
(***************************************************************************)
(* A model of the IRIS snapshot analysis pipeline (src/iris_analysis.py):  *)
(* filename parsing, image validation, person detection, per-store row     *)
(* sets, camera hotspot ranking, store summaries and root discovery.       *)
(*                                                                         *)
(* Strings whose characters matter (file names, directory names, camera    *)
(* ids) are sequences of one-character strings; Ord gives the code point   *)
(* of each character, so that comparisons, suffix tests and the mock       *)
(* detector's seed are computed as Python computes them.                   *)
(***************************************************************************)
EXTENDS Integers, Sequences, FiniteSets, TLC

VARIABLES
    fs,                        \* the directory tree under the root (the environment)
    pc,                        \* position: "idle", "images", "stores", "done", "raised",
                               \* "exported", "loaded"
    mode,                      \* entry point running: "none", "root", "store"
    detector,                  \* the active detector
    detector_warning,          \* build_detector's warning string
    args,                      \* the running call's time_bucket_minutes, reference_day
    store_dirs,                \* analyze_root: store directories still to analyze
    used_root_fallback_store,  \* _list_store_dirs' second result
    cur,                       \* analyze_store's frame: store_id, images left, rows
    store_results,             \* analyze_root's store_results dict
    summary_frames,            \* analyze_root's summary_frames list
    output,                    \* the AnalysisOutput / StoreAnalysisResult returned
    calls,                     \* history: parser, validator and detector invocations
    out_dir,                   \* the export directory: file name -> CSV table
    loaded,                    \* the AnalysisOutput load_exports returned
    parse_in,                  \* parse_filename called on its own: the arguments
    parse_out,                 \* ... and its outcome
    stores_table,              \* the registry database's stores table
    registry_call,             \* the last registry call and its outcome
    employees,                 \* the registry database's employees table
    asset_files,               \* the files under employee_assets_root
    sessions                   \* each session's place in its upsert_store call

vars == <<fs, pc, mode, detector, detector_warning, args, store_dirs,
          used_root_fallback_store, cur, store_results, summary_frames, output,
          calls, out_dir, loaded, parse_in, parse_out, stores_table, registry_call,
          employees, asset_files, sessions>>

analysisVars == <<fs, pc, mode, detector, detector_warning, args,
                  store_dirs, used_root_fallback_store, cur, store_results,
                  summary_frames, output, calls, out_dir, loaded>>

parseVars == <<parse_in, parse_out>>

registryVars == <<stores_table, registry_call, employees, asset_files, sessions>>

-----------------------------------------------------------------------------
(* Characters and strings *)

\* ord(ch) for every character the model's names use.
Ord ==
    "\n" :> 10 @@ "-" :> 45 @@ "." :> 46 @@ "0" :> 48 @@ "1" :> 49 @@ "2" :> 50 @@
    "3" :> 51 @@ "4" :> 52 @@ "5" :> 53 @@ "6" :> 54 @@ "7" :> 55 @@ "8" :> 56 @@
    "9" :> 57 @@ "C" :> 67 @@ "D" :> 68 @@ "G" :> 71 @@ "J" :> 74 @@ "P" :> 80 @@
    "_" :> 95 @@ "a" :> 97 @@ "b" :> 98 @@ "d" :> 100 @@ "e" :> 101 @@ "g" :> 103 @@
    "h" :> 104 @@ "j" :> 106 @@ "m" :> 109 @@ "n" :> 110 @@ "o" :> 111 @@
    "p" :> 112 @@ "r" :> 114 @@ "s" :> 115 @@ "t" :> 116 @@ "w" :> 119 @@
    "x" :> 120

\* The characters \d matches (ASCII; the model's names hold no other digits).
Digits == {"0", "1", "2", "3", "4", "5", "6", "7", "8", "9"}

\* The value of one digit character, as int() reads it.
DigitVal(c) == Ord[c] - Ord["0"]

\* int(s) for a non-empty string of digits.
RECURSIVE IntOf(_)
IntOf(s) ==
    IF Len(s) = 0 THEN 0
    ELSE 10 * IntOf(SubSeq(s, 1, Len(s) - 1)) + DigitVal(s[Len(s)])

AllDigits(s) == \A i \in 1..Len(s) : s[i] \in Digits

\* str.lower() on one character.
LowerChar(c) ==
    CASE c = "C" -> "c" [] c = "D" -> "d" [] c = "G" -> "g"
      [] c = "J" -> "j" [] c = "P" -> "p" [] OTHER -> c

Lower(s) == [i \in 1..Len(s) |-> LowerChar(s[i])]

\* Python's str < str: lexicographic by code point, a proper prefix first.
RECURSIVE StrLess(_, _)
StrLess(a, b) ==
    IF Len(b) = 0 THEN FALSE
    ELSE IF Len(a) = 0 THEN TRUE
    ELSE IF Ord[a[1]] # Ord[b[1]] THEN Ord[a[1]] < Ord[b[1]]
    ELSE StrLess(Tail(a), Tail(b))

StartsWith(s, p) == Len(s) >= Len(p) /\ SubSeq(s, 1, Len(p)) = p

EndsWith(s, p) ==
    Len(s) >= Len(p) /\ SubSeq(s, Len(s) - Len(p) + 1, Len(s)) = p

\* The empty string.
EmptyStr == << >>

\* str.strip() leaves something: some character is not whitespace.
StripNonEmpty(s) == \E i \in 1..Len(s) : s[i] # "\n"

-----------------------------------------------------------------------------
(* parse_filename *)

DotJpg == <<".", "j", "p", "g">>

\* A faulty FILE_PATTERN whose frame group is \d instead of \d+: C10 must
\* tell it from the pattern of the code.
FILE_PATTERN_one_digit_frame(filename) ==
    LET n == Len(filename)
        core == IF n > 0 /\ filename[n] = "\n"
                THEN SubSeq(filename, 1, n - 1) ELSE filename
    IN  IF /\ Len(core) = 18
           /\ core[1] \in Digits /\ core[2] \in Digits /\ core[3] = "-"
           /\ core[4] \in Digits /\ core[5] \in Digits /\ core[6] = "-"
           /\ core[7] \in Digits /\ core[8] \in Digits /\ core[9] = "_"
           /\ core[10] = "D"
           /\ core[11] \in Digits /\ core[12] \in Digits /\ core[13] = "-"
           /\ core[14] \in Digits
           /\ EndsWith(core, <<".", "j", "p", "g">>)
        THEN core
        ELSE EmptyStr

\* FILE_PATTERN.match(filename): anchored at the start by match(), at the end by
\* "$", which also matches just before a final newline.  The result is the
\* matched text (the filename without that newline) or the empty string.
FILE_PATTERN(filename) ==
    LET n == Len(filename)
        core == IF n > 0 /\ filename[n] = "\n"
                THEN SubSeq(filename, 1, n - 1) ELSE filename
        m == Len(core)
    IN  IF /\ m >= 18
           /\ core[1] \in Digits /\ core[2] \in Digits /\ core[3] = "-"
           /\ core[4] \in Digits /\ core[5] \in Digits /\ core[6] = "-"
           /\ core[7] \in Digits /\ core[8] \in Digits /\ core[9] = "_"
           /\ core[10] = "D"
           /\ core[11] \in Digits /\ core[12] \in Digits /\ core[13] = "-"
           /\ AllDigits(SubSeq(core, 14, m - 4))
           /\ EndsWith(core, DotJpg)
        THEN core
        ELSE EmptyStr

\* The timestamp of an unparsed row (pd.NaT).
NaT == [isNaT |-> TRUE, day |-> 0, hour |-> 0, minute |-> 0, second |-> 0]

\* datetime.replace(hour=, minute=, second=) raises ValueError out of range.
ValidTime(hh, mm, ss) == hh <= 23 /\ mm <= 59 /\ ss <= 59

\* parse_filename(filename, reference_day); today is date.today(), read only
\* when no reference day is given (reference_day = 0 stands for None).
\* tag: "none" (no match), "parsed" (a ParsedFilename), "raise" (ValueError).
parse_filename(filename, reference_day, today) ==
    LET core == FILE_PATTERN(filename)
        hh == IntOf(SubSeq(core, 1, 2))
        mm == IntOf(SubSeq(core, 4, 5))
        ss == IntOf(SubSeq(core, 7, 8))
        day == IF reference_day = 0 THEN today ELSE reference_day
    IN  IF core = EmptyStr
        THEN [tag |-> "none", timestamp |-> NaT, camera_id |-> EmptyStr,
              frame_no |-> 0]
        ELSE IF ~ValidTime(hh, mm, ss)
        THEN [tag |-> "raise", timestamp |-> NaT, camera_id |-> EmptyStr,
              frame_no |-> 0]
        ELSE [tag |-> "parsed",
              timestamp |-> [isNaT |-> FALSE, day |-> day, hour |-> hh,
                             minute |-> mm, second |-> ss],
              camera_id |-> SubSeq(core, 10, 12),
              frame_no |-> IntOf(SubSeq(core, 14, Len(core) - 4))]

-----------------------------------------------------------------------------
(* parse_filename called on its own, over a family of filenames *)

TwoDigitFields == {<<"0", "0">>, <<"0", "9">>, <<"2", "3">>, <<"2", "5">>,
                   <<"5", "9">>, <<"6", "1">>}
CameraFields == {<<"D", "0", "2">>, <<"D", "1", "3">>, <<"C", "0", "2">>,
                 <<"d", "0", "2">>, <<"D", "2">>}
FrameFields == {<<"1">>, <<"0", "4", "2">>, EmptyStr}
SuffixFields == {DotJpg, <<".", "J", "P", "G">>, <<".", "p", "n", "g">>,
                 <<".", "j", "p", "g", "\n">>}

\* f"{hh}-{mm}-{ss}_{camera}-{frame}{suffix}"
FormatName(hh, mm, ss, camera, frame, suffix) ==
    hh \o <<"-">> \o mm \o <<"-">> \o ss \o <<"_">> \o camera \o <<"-">>
       \o frame \o suffix

BadName == <<"b", "a", "d", "_", "n", "a", "m", "e", ".", "j", "p", "g">>

ParseNames ==
    { FormatName(hh, mm, <<"2", "7">>, c, f, x) :
        hh \in TwoDigitFields, mm \in TwoDigitFields, c \in CameraFields,
        f \in FrameFields, x \in SuffixFields }
    \cup { FormatName(<<"0", "9">>, <<"5", "7">>, ss, <<"D", "0", "2">>,
                      <<"1">>, DotJpg) : ss \in TwoDigitFields }
    \cup { BadName, EmptyStr, <<"x">> \o FormatName(<<"0", "9">>, <<"5", "7">>,
                      <<"2", "7">>, <<"D", "0", "2">>, <<"1">>, DotJpg) }

\* Reference days (day numbers); 0 is "no reference day given".
ReferenceDays == {0, 1, 2}
Todays == {1, 2}

Idle == [tag |-> "idle"]

InitParse ==
    /\ parse_in = Idle
    /\ parse_out = Idle

\* parse_filename(filename, reference_day) is called.
CallParseFilename ==
    /\ parse_in = Idle
    /\ \E filename \in ParseNames, reference_day \in ReferenceDays, today \in Todays :
          /\ reference_day # 0 => today = 1
          /\ parse_in' = [tag |-> "call", filename |-> filename,
                          reference_day |-> reference_day, today |-> today]
          /\ parse_out' = parse_filename(filename, reference_day, today)

-----------------------------------------------------------------------------
(* The directory tree *)

\* PurePath.suffix: the name from its last dot, unless that dot is the first
\* or the last character.
RECURSIVE LastDot(_)
LastDot(name) ==
    IF Len(name) = 0 THEN 0
    ELSE IF name[Len(name)] = "." THEN Len(name)
    ELSE LastDot(SubSeq(name, 1, Len(name) - 1))

PathSuffix(name) ==
    LET i == LastDot(name)
    IN  IF 1 < i /\ i < Len(name) THEN SubSeq(name, i, Len(name)) ELSE EmptyStr

IMAGE_EXTENSIONS ==
    {DotJpg, <<".", "j", "p", "e", "g">>, <<".", "p", "n", "g">>,
     <<".", "b", "m", "p">>, <<".", "w", "e", "b", "p">>}

\* path.is_file() and path.suffix.lower() in IMAGE_EXTENSIONS
IsImageFile(entry) ==
    entry.kind = "file" /\ Lower(PathSuffix(entry.name)) \in IMAGE_EXTENSIONS

\* sorted(): the elements of a set of entries in ascending order of name (the
\* entries of one directory, whose names are distinct).
RECURSIVE SortedByName(_)
SortedByName(entries) ==
    IF entries = {} THEN << >>
    ELSE LET first == CHOOSE e \in entries :
                         \A o \in entries \ {e} : StrLess(e.name, o.name)
         IN  <<first>> \o SortedByName(entries \ {first})

\* A faulty _iter_store_images that compares the suffix as it is spelled: C25
\* must tell it from the code's.
_iter_store_images_case_sensitive(dir) ==
    SortedByName({e \in dir.children :
                     e.kind = "file" /\ PathSuffix(e.name) \in IMAGE_EXTENSIONS})

\* _iter_store_images(store_dir)
_iter_store_images(dir) ==
    SortedByName({e \in dir.children : IsImageFile(e)})

\* A faulty store test that forgets the empty-directory case: C5 must
\* tell it from the code's.
QualifyingDirsWithImages(root) ==
    SortedByName(
        {d \in root.children :
            /\ d.kind = "dir"
            /\ ~StartsWith(d.name, <<".">>)
            /\ \E c \in {x \in d.children : x.kind = "file"} :
                  Lower(PathSuffix(c.name)) \in IMAGE_EXTENSIONS})

\* A faulty store test that looks at the names of all children, not of the
\* files only: C6 must tell it from the code's.
QualifyingDirsAnyChild(root) ==
    SortedByName(
        {d \in root.children :
            /\ d.kind = "dir"
            /\ ~StartsWith(d.name, <<".">>)
            /\ LET files == {c \in d.children : c.kind = "file"}
                   has_images == \E c \in d.children :
                                    Lower(PathSuffix(c.name)) \in IMAGE_EXTENSIONS
                   is_empty == files = {} /\ ~\E c \in d.children : c.kind = "dir"
               IN  has_images \/ is_empty})

\* The subdirectories of the root that qualify as stores (the loop of
\* _list_store_dirs), in sorted order.
QualifyingDirs(root) ==
    SortedByName(
        {d \in root.children :
            /\ d.kind = "dir"
            /\ ~StartsWith(d.name, <<".">>)
            /\ LET files == {c \in d.children : c.kind = "file"}
                   has_images == \E c \in files :
                                    Lower(PathSuffix(c.name)) \in IMAGE_EXTENSIONS
                   is_empty == files = {} /\ ~\E c \in d.children : c.kind = "dir"
               IN  has_images \/ is_empty})

\* A faulty _list_store_dirs that looks for images in the root before it
\* looks at the subdirectories: C7 must tell it from the code's.
_list_store_dirs_root_first(root) ==
    LET dirs == QualifyingDirs(root)
    IN  IF \E e \in root.children : IsImageFile(e) THEN <<(<<root>>), TRUE>>
        ELSE IF dirs # << >> THEN <<dirs, FALSE>>
        ELSE <<(<< >>), FALSE>>

\* _list_store_dirs(root_dir): <<store_dirs, used_root_fallback_store>>
_list_store_dirs(root) ==
    LET dirs == QualifyingDirs(root)
    IN  IF dirs # << >> THEN <<dirs, FALSE>>
        ELSE IF \E e \in root.children : IsImageFile(e) THEN <<(<<root>>), TRUE>>
        ELSE <<(<< >>), FALSE>>

-----------------------------------------------------------------------------
(* Image validation and detection *)

\* What a file holds: no bytes, bytes that do not decode, or an image.
Contents == {"zero", "broken", "image"}

\* A faulty validate_image that opens the file before it looks at its size
\* (an empty file does not decode): C12 must tell it from the code's.
validate_image_decode_first(content) ==
    IF content # "image" THEN <<FALSE, "unreadable", TRUE>>
    ELSE <<TRUE, "", TRUE>>

\* validate_image(path): <<is_valid, reject_reason>>, and third whether
\* Image.open was reached.
validate_image(content) ==
    IF content = "zero" THEN <<FALSE, "zero_byte", FALSE>>
    ELSE IF content = "broken" THEN <<FALSE, "unreadable", TRUE>>
    ELSE <<TRUE, "", TRUE>>

\* DetectionResult; max_person_conf is in thousandths.
DetectionResult(count, conf, error) ==
    [person_count |-> count, max_person_conf |-> conf, detection_error |-> error]

\* The result analyze_store starts from, kept when the image is not valid.
NoDetection == DetectionResult(0, 0, "")

Max(a, b) == IF a >= b THEN a ELSE b
Min(a, b) == IF a <= b THEN a ELSE b

RECURSIVE SumOrd(_)
SumOrd(name) == IF Len(name) = 0 THEN 0 ELSE Ord[Head(name)] + SumOrd(Tail(name))

\* A faulty mock detector that counts modulo 5: C15 must tell it from the
\* code's.
MockPersonDetector_detect_mod5(threshold, name) ==
    LET seed == SumOrd(name)
        person_count == seed % 5
        max_conf == Max(threshold, Min(950, 550 + (seed % 30) * 10))
    IN  IF person_count = 0 THEN DetectionResult(0, 0, "")
        ELSE DetectionResult(person_count, max_conf, "")

\* MockPersonDetector.detect
MockPersonDetector_detect(threshold, name) ==
    LET seed == SumOrd(name)
        person_count == seed % 4
        max_conf == Max(threshold, Min(950, 550 + (seed % 30) * 10))
    IN  IF person_count = 0 THEN DetectionResult(0, 0, "")
        ELSE DetectionResult(person_count, max_conf, "")

\* UnavailableDetector.detect
UnavailableDetector_detect(reason) == DetectionResult(0, 0, reason)

\* The largest number of people a detector other than the mock reports.
MaxCount == 2

\* YoloPersonDetector.detect: no boxes, some boxes (their number and their
\* largest confidence, at least the threshold), or the model's exception.
YoloPersonDetector_detect(threshold) ==
    {DetectionResult(0, 0, ""), DetectionResult(0, 0, "inference failed")}
    \cup {DetectionResult(n, Max(threshold, 900), "") : n \in 1..MaxCount}

\* Any other PersonDetector (the tests' FixedDetector is one): whatever
\* DetectionResult its detect returns.
CustomDetect ==
    {DetectionResult(n, IF n > 0 THEN 800 ELSE 0, e) :
        n \in 0..MaxCount, e \in {"", "detector error"}}

\* detector.detect(image_path): the results the active detector can return.
Detect(det, name) ==
    CASE det.kind = "mock" -> {MockPersonDetector_detect(det.conf_threshold, name)}
      [] det.kind = "unavailable" -> {UnavailableDetector_detect(det.reason)}
      [] det.kind = "yolo" -> YoloPersonDetector_detect(det.conf_threshold)
      [] OTHER -> CustomDetect

NoDetector == [kind |-> "none", conf_threshold |-> 0, reason |-> ""]

\* A faulty build_detector whose fallback from a failed YOLO construction
\* returns no warning: C13 must tell it from the code's.
build_detector_silent_fallback(detector_type, threshold, yolo_loads) ==
    IF detector_type = "mock"
    THEN <<[kind |-> "mock", conf_threshold |-> threshold, reason |-> ""], "">>
    ELSE IF detector_type # "yolo"
    THEN <<[kind |-> "unavailable", conf_threshold |-> 0,
            reason |-> "Unsupported detector_type"],
           "Unsupported detector_type, using unavailable detector fallback.">>
    ELSE IF yolo_loads
    THEN <<[kind |-> "yolo", conf_threshold |-> threshold, reason |-> ""], "">>
    ELSE <<[kind |-> "unavailable", conf_threshold |-> 0,
            reason |-> "Detector unavailable: no module"],
           "">>

\* build_detector(detector_type, conf_threshold): <<detector, warning>>.
\* yolo_loads: whether YoloPersonDetector's constructor succeeds.
build_detector(detector_type, threshold, yolo_loads) ==
    IF detector_type = "mock"
    THEN <<[kind |-> "mock", conf_threshold |-> threshold, reason |-> ""], "">>
    ELSE IF detector_type # "yolo"
    THEN <<[kind |-> "unavailable", conf_threshold |-> 0,
            reason |-> "Unsupported detector_type"],
           "Unsupported detector_type, using unavailable detector fallback.">>
    ELSE IF yolo_loads
    THEN <<[kind |-> "yolo", conf_threshold |-> threshold, reason |-> ""], "">>
    ELSE <<[kind |-> "unavailable", conf_threshold |-> 0,
            reason |-> "Detector unavailable: no module"],
           "Detector unavailable: no module">>

-----------------------------------------------------------------------------
(* Rows of a store *)

\* The row of a file whose name does not parse (analyze_store, lines 320-334).
BadFilenameRow(store_id, name) ==
    [store_id |-> store_id, filename |-> name, camera_id |-> EmptyStr,
     timestamp |-> NaT, is_valid |-> FALSE, person_count |-> 0,
     max_person_conf |-> 0, relevant |-> FALSE, reject_reason |-> "bad_filename",
     detection_error |-> ""]

\* A faulty relevant that ignores detection_error: C1 must tell it from the
\* code's.
RelevantIgnoringError(is_valid, detection) ==
    is_valid /\ detection.person_count >= 1

\* relevant, as analyze_store computes it (lines 341-343).
Relevant(is_valid, detection) ==
    is_valid /\ detection.detection_error = "" /\ detection.person_count >= 1

\* The row of a parsed file (analyze_store, lines 345-359).
ParsedRow(store_id, name, parsed, validation, detection) ==
    [store_id |-> store_id, filename |-> name, camera_id |-> parsed.camera_id,
     timestamp |-> parsed.timestamp, is_valid |-> validation[1],
     person_count |-> detection.person_count,
     max_person_conf |-> detection.max_person_conf,
     relevant |-> Relevant(validation[1], detection),
     reject_reason |-> validation[2],
     detection_error |-> detection.detection_error]

\* Seconds since the epoch's midnight, for comparing timestamps.
TsKey(ts) == ((ts.day * 24 + ts.hour) * 60 + ts.minute) * 60 + ts.second

\* The order of image_insights.sort_values(by=[timestamp, camera_id,
\* filename], na_position="last").
RowLess(a, b) ==
    IF a.timestamp.isNaT # b.timestamp.isNaT THEN b.timestamp.isNaT
    ELSE IF ~a.timestamp.isNaT /\ TsKey(a.timestamp) # TsKey(b.timestamp)
    THEN TsKey(a.timestamp) < TsKey(b.timestamp)
    ELSE IF a.camera_id # b.camera_id THEN StrLess(a.camera_id, b.camera_id)
    ELSE StrLess(a.filename, b.filename)

\* The sorted image_insights of a store (lines 361-396).
SortRows(rows) == SortSeq(rows, RowLess)

-----------------------------------------------------------------------------
(* Camera hotspots *)

\* The elements of a sequence, and those satisfying relevant.
Range(seq) == {seq[i] : i \in 1..Len(seq)}

RelevantRows(rows) == SelectSeq(rows, LAMBDA r : r.relevant)

RECURSIVE SumPeople(_)
SumPeople(rows) ==
    IF Len(rows) = 0 THEN 0 ELSE Head(rows).person_count + SumPeople(Tail(rows))

\* sorted(set(camera_ids))
RECURSIVE SortedStrs(_)
SortedStrs(strs) ==
    IF strs = {} THEN << >>
    ELSE LET first == CHOOSE a \in strs : \A b \in strs \ {a} : StrLess(a, b)
         IN  <<first>> \o SortedStrs(strs \ {first})

\* (total / count).round(3), in thousandths: to the nearest, halves to even.
Round3(total, count) ==
    LET q == (1000 * total) \div count
        r == (1000 * total) % count
    IN  IF 2 * r > count THEN q + 1
        ELSE IF 2 * r < count THEN q
        ELSE IF q % 2 = 0 THEN q ELSE q + 1

HotspotRow(store_id, camera_id, relevant_images, total_people, avg, rank) ==
    [store_id |-> store_id, camera_id |-> camera_id,
     relevant_images |-> relevant_images, total_people |-> total_people,
     avg_people_per_relevant_image |-> avg, hotspot_rank |-> rank]

\* _empty_camera_hotspots(store_id, camera_ids)
_empty_camera_hotspots(store_id, camera_ids) ==
    LET sorted == SortedStrs(camera_ids)
    IN  [i \in 1..Len(sorted) |-> HotspotRow(store_id, sorted[i], 0, 0, 0, i)]

\* A faulty order that leaves total_people out of the sort keys: C4 must
\* tell it from the code's.
HotspotLessWithoutTotal(a, b) ==
    IF a.avg_people_per_relevant_image # b.avg_people_per_relevant_image
    THEN a.avg_people_per_relevant_image > b.avg_people_per_relevant_image
    ELSE StrLess(a.camera_id, b.camera_id)

\* A faulty order with the smallest average first: C27 must tell it from
\* the code's.
HotspotLessAscending(a, b) ==
    IF a.avg_people_per_relevant_image # b.avg_people_per_relevant_image
    THEN a.avg_people_per_relevant_image < b.avg_people_per_relevant_image
    ELSE IF a.total_people # b.total_people THEN a.total_people > b.total_people
    ELSE StrLess(a.camera_id, b.camera_id)

\* The order of grouped.sort_values(by=[avg, total_people, camera_id],
\* ascending=[False, False, True]).
HotspotLess(a, b) ==
    IF a.avg_people_per_relevant_image # b.avg_people_per_relevant_image
    THEN a.avg_people_per_relevant_image > b.avg_people_per_relevant_image
    ELSE IF a.total_people # b.total_people THEN a.total_people > b.total_people
    ELSE StrLess(a.camera_id, b.camera_id)

\* A faulty build_camera_hotspots that does not add the cameras without a
\* relevant image (lines 239-243 left out): C3 must tell it from the code's.
build_camera_hotspots_relevant_only(image_insights, store_id) ==
    LET cameras == {r.camera_id : r \in {x \in Range(image_insights) :
                                            StripNonEmpty(x.camera_id)}}
        relevant == RelevantRows(image_insights)
        OfCamera(c) == SelectSeq(relevant, LAMBDA r : r.camera_id = c)
        groups == {r.camera_id : r \in Range(relevant)}
        Grouped(c) ==
            HotspotRow(store_id, c, Len(OfCamera(c)), SumPeople(OfCamera(c)),
                       Round3(SumPeople(OfCamera(c)), Len(OfCamera(c))), 0)
        index == SortedStrs(groups)
        unsorted == [i \in 1..Len(index) |-> Grouped(index[i])]
        sorted == SortSeq(unsorted, HotspotLess)
    IN  IF cameras = {} THEN << >>
        ELSE IF Len(relevant) = 0 THEN _empty_camera_hotspots(store_id, cameras)
        ELSE [i \in 1..Len(sorted) |-> [sorted[i] EXCEPT !.hotspot_rank = i]]

\* A faulty build_camera_hotspots that sums the people of every row of a
\* camera, relevant or not: C23 must tell it from the code's.
build_camera_hotspots_all_rows(image_insights, store_id) ==
    LET cameras == {r.camera_id : r \in {x \in Range(image_insights) :
                                            StripNonEmpty(x.camera_id)}}
        relevant == RelevantRows(image_insights)
        OfCamera(c) == SelectSeq(relevant, LAMBDA r : r.camera_id = c)
        AllOfCamera(c) == SelectSeq(image_insights, LAMBDA r : r.camera_id = c)
        groups == {r.camera_id : r \in Range(relevant)}
        Grouped(c) ==
            IF c \in groups
            THEN HotspotRow(store_id, c, Len(OfCamera(c)), SumPeople(AllOfCamera(c)),
                            Round3(SumPeople(AllOfCamera(c)), Len(OfCamera(c))), 0)
            ELSE HotspotRow(store_id, c, 0, 0, 0, 0)
        index == SortedStrs(groups \cup cameras)
        unsorted == [i \in 1..Len(index) |-> Grouped(index[i])]
        sorted == SortSeq(unsorted, HotspotLess)
    IN  IF cameras = {} THEN << >>
        ELSE IF Len(relevant) = 0 THEN _empty_camera_hotspots(store_id, cameras)
        ELSE [i \in 1..Len(sorted) |-> [sorted[i] EXCEPT !.hotspot_rank = i]]

\* build_camera_hotspots(image_insights, store_id)
build_camera_hotspots(image_insights, store_id) ==
    LET cameras == {r.camera_id : r \in {x \in Range(image_insights) :
                                            StripNonEmpty(x.camera_id)}}
        relevant == RelevantRows(image_insights)
        OfCamera(c) == SelectSeq(relevant, LAMBDA r : r.camera_id = c)
        groups == {r.camera_id : r \in Range(relevant)}
        Grouped(c) ==
            IF c \in groups
            THEN HotspotRow(store_id, c, Len(OfCamera(c)), SumPeople(OfCamera(c)),
                            Round3(SumPeople(OfCamera(c)), Len(OfCamera(c))), 0)
            ELSE HotspotRow(store_id, c, 0, 0, 0, 0)
        index == SortedStrs(groups \cup cameras)
        unsorted == [i \in 1..Len(index) |-> Grouped(index[i])]
        sorted == SortSeq(unsorted, HotspotLess)
    IN  IF cameras = {} THEN << >>
        ELSE IF Len(relevant) = 0 THEN _empty_camera_hotspots(store_id, cameras)
        ELSE [i \in 1..Len(sorted) |-> [sorted[i] EXCEPT !.hotspot_rank = i]]

-----------------------------------------------------------------------------
(* Store summary *)

\* Minutes since the epoch of timestamp.floor(f"{n}min").
Bucket(ts, n) == ((((ts.day * 24 + ts.hour) * 60) + ts.minute) \div n) * n

DigitChar(d) == CHOOSE c \in Digits : DigitVal(c) = d

TwoDigits(n) == <<DigitChar(n \div 10), DigitChar(n % 10)>>

\* bucket.strftime("%H:%M")
FormatHM(bucket) ==
    TwoDigits((bucket \div 60) % 24) \o <<":">> \o TwoDigits(bucket % 60)

\* A faulty _peak_time_bucket that takes the latest of the buckets with the
\* largest sum: C17 must tell it from the code's.
_peak_time_bucket_latest_tie(image_insights, time_bucket_minutes) ==
    LET relevant == RelevantRows(image_insights)
        buckets == {Bucket(r.timestamp, time_bucket_minutes) : r \in Range(relevant)}
        Total(b) == SumPeople(SelectSeq(relevant,
                        LAMBDA r : Bucket(r.timestamp, time_bucket_minutes) = b))
        first == CHOOSE b \in buckets :
                    \A o \in buckets \ {b} :
                        Total(b) > Total(o) \/ (Total(b) = Total(o) /\ b > o)
    IN  IF Len(relevant) = 0 THEN EmptyStr ELSE FormatHM(first)

\* _peak_time_bucket(image_insights, time_bucket_minutes)
_peak_time_bucket(image_insights, time_bucket_minutes) ==
    LET relevant == RelevantRows(image_insights)
        buckets == {Bucket(r.timestamp, time_bucket_minutes) : r \in Range(relevant)}
        Total(b) == SumPeople(SelectSeq(relevant,
                        LAMBDA r : Bucket(r.timestamp, time_bucket_minutes) = b))
        first == CHOOSE b \in buckets :
                    \A o \in buckets \ {b} :
                        Total(b) > Total(o) \/ (Total(b) = Total(o) /\ b < o)
    IN  IF Len(relevant) = 0 THEN EmptyStr ELSE FormatHM(first)

\* A faulty build_store_summary that counts the people of relevant rows
\* only: C26 must tell it from the code's.
build_store_summary_relevant_people(store_id, image_insights, camera_hotspots, time_bucket_minutes) ==
    [store_id |-> store_id,
     total_images |-> Len(image_insights),
     valid_images |-> Len(SelectSeq(image_insights, LAMBDA r : r.is_valid)),
     relevant_images |-> Len(RelevantRows(image_insights)),
     total_people |-> SumPeople(RelevantRows(image_insights)),
     top_camera_hotspot |->
        IF Len(camera_hotspots) > 0 /\ camera_hotspots[1].relevant_images > 0
        THEN camera_hotspots[1].camera_id ELSE EmptyStr,
     peak_time_bucket |-> _peak_time_bucket(image_insights, time_bucket_minutes)]

\* A faulty build_store_summary that names the first hotspot camera whether
\* or not it has a relevant image: C16 must tell it from the code's.
build_store_summary_any_top(store_id, image_insights, camera_hotspots, time_bucket_minutes) ==
    [store_id |-> store_id,
     total_images |-> Len(image_insights),
     valid_images |-> Len(SelectSeq(image_insights, LAMBDA r : r.is_valid)),
     relevant_images |-> Len(RelevantRows(image_insights)),
     total_people |-> SumPeople(image_insights),
     top_camera_hotspot |->
        IF Len(camera_hotspots) > 0
        THEN camera_hotspots[1].camera_id ELSE EmptyStr,
     peak_time_bucket |-> _peak_time_bucket(image_insights, time_bucket_minutes)]

\* build_store_summary(store_id, image_insights, camera_hotspots,
\* time_bucket_minutes)
build_store_summary(store_id, image_insights, camera_hotspots, time_bucket_minutes) ==
    [store_id |-> store_id,
     total_images |-> Len(image_insights),
     valid_images |-> Len(SelectSeq(image_insights, LAMBDA r : r.is_valid)),
     relevant_images |-> Len(RelevantRows(image_insights)),
     total_people |-> SumPeople(image_insights),
     top_camera_hotspot |->
        IF Len(camera_hotspots) > 0 /\ camera_hotspots[1].relevant_images > 0
        THEN camera_hotspots[1].camera_id ELSE EmptyStr,
     peak_time_bucket |-> _peak_time_bucket(image_insights, time_bucket_minutes)]

\* The StoreAnalysisResult analyze_store returns from its rows (lines 361-409).
StoreResult(store_id, rows, time_bucket_minutes) ==
    LET image_insights == SortRows(rows)
        camera_hotspots == build_camera_hotspots(image_insights, store_id)
    IN  [image_insights |-> image_insights,
         camera_hotspots |-> camera_hotspots,
         summary_row |-> build_store_summary(store_id, image_insights,
                                           camera_hotspots, time_bucket_minutes)]

-----------------------------------------------------------------------------
(* The directory trees analyzed *)

File(name) == [name |-> name, kind |-> "file", children |-> {}]
Dir(name, children) == [name |-> name, kind |-> "dir", children |-> children]

RootName == <<"r", "o", "o", "t">>
StoreOne == <<"s", "1">>
StoreTwo == <<"s", "2">>
HiddenDir == <<".", "h">>
TextFile == <<"a", ".", "t", "x", "t">>

\* A store directory whose name reads as a number.
NumericDir == <<"0", "0", "1">>

H09 == <<"0", "9">>
M57 == <<"5", "7">>
M58 == <<"5", "8">>
D02 == <<"D", "0", "2">>
D03 == <<"D", "0", "3">>
D04 == <<"D", "0", "4">>

\* "09-57-27_D02-1.jpg" and "09-57-44_D03-1.jpg", the files of the tests.
FirstImage == FormatName(H09, M57, <<"2", "7">>, D02, <<"1">>, DotJpg)
SecondImage == FormatName(H09, M57, <<"4", "4">>, D03, <<"1">>, DotJpg)

\* "25-61-61_D02-1.jpg": digits that are no time of day.
BadTimeImage ==
    FormatName(<<"2", "5">>, <<"6", "1">>, <<"6", "1">>, D02, <<"1">>, DotJpg)

\* The names a store directory's files are drawn from.
StoreFileNames ==
    {FirstImage, SecondImage,
     FormatName(H09, M58, <<"0", "0">>, D03, <<"2">>, DotJpg),
     FormatName(H09, M57, <<"2", "7">>, D04, <<"1">>, DotJpg),
     BadTimeImage,
     FormatName(H09, M57, <<"2", "7">>, D04, <<"1">>, <<".", "J", "P", "G">>),
     BadName, TextFile}

\* The largest number of files in a store directory.
MaxFiles == 3

\* A root with one store directory holding up to MaxFiles files.
StoreTrees ==
    {Dir(RootName, {Dir(StoreOne, {File(n) : n \in names})}) :
        names \in {ns \in SUBSET StoreFileNames : Cardinality(ns) <= MaxFiles}}

\* A root whose store directory has a numeric name, alone or beside another
\* store.
NumericTrees ==
    {Dir(RootName, {Dir(NumericDir, {File(FirstImage)})} \cup others) :
        others \in {{}, {Dir(StoreOne, {File(SecondImage)})}}}

\* A root with two stores of one image each.
PairTrees ==
    {Dir(RootName, {Dir(StoreOne, {File(n)}), Dir(StoreTwo, {File(FirstImage)})}) :
        n \in {SecondImage, BadTimeImage}}

\* A root whose store holds three images of camera D03 and one of D02.
OneCameraTrees ==
    {Dir(RootName, {Dir(StoreOne,
        {File(FirstImage), File(SecondImage),
         File(FormatName(H09, M58, <<"0", "0">>, D03, <<"2">>, DotJpg)),
         File(FormatName(H09, M58, <<"0", "0">>, D03, <<"3">>, DotJpg))})})}

\* What a subdirectory of the root may hold: nothing, an image file, a text
\* file, or a directory (named like an image).
DirProfiles ==
    {{}, {File(FirstImage)}, {File(TextFile)}, {Dir(SecondImage, {})}}

RootFileProfiles == {{}, {File(FirstImage)}, {File(TextFile)}}

\* A root with any of three subdirectories, each with one of the profiles,
\* and possibly a file of its own.
LayoutTrees ==
    UNION {
        {Dir(RootName, {Dir(d, profile[d]) : d \in present} \cup files) :
            profile \in [present -> DirProfiles], files \in RootFileProfiles} :
        present \in SUBSET {StoreOne, StoreTwo, HiddenDir}}

-----------------------------------------------------------------------------
(* analyze_root and analyze_store, step by step *)

\* Caller-supplied confidence thresholds (thousandths), bucket widths
\* (minutes) and the reference day (a day number).
ConfThresholds == {250, 1500}
BucketWidths == {1, 5}
RunReferenceDays == {1}
DetectorTypes == {"mock", "yolo", "foo"}

NoFrame == [store_id |-> EmptyStr, images |-> << >>, rows |-> << >>]
NoArgs == [detector_type |-> "none", time_bucket_minutes |-> 0, reference_day |-> 0]
NoOutput == [tag |-> "none"]
EmptyDict == [k \in {} |-> NoOutput]

\* An export directory with no file in it.
EmptyDir == [k \in {} |-> << >>]

\* dict[key] = value
DictSet(dict, key, value) ==
    [k \in DOMAIN dict \cup {key} |-> IF k = key THEN value ELSE dict[k]]

\* A call made by analyze_store's loop: what was called, on which file of
\* which store, and what the file held when validate_image read it.
Call(op, store_id, name, content) ==
    [op |-> op, store_id |-> store_id, filename |-> name,
     content |-> IF op \in {"validate", "decode"} THEN content ELSE "unread"]

InitAnalysis ==
    /\ fs \in StoreTrees \cup LayoutTrees \cup NumericTrees \cup PairTrees
               \cup OneCameraTrees
    /\ pc = "idle"
    /\ mode = "none"
    /\ detector = NoDetector
    /\ detector_warning = ""
    /\ args = NoArgs
    /\ store_dirs = << >>
    /\ used_root_fallback_store = FALSE
    /\ cur = NoFrame
    /\ store_results = EmptyDict
    /\ summary_frames = << >>
    /\ output = NoOutput
    /\ calls = << >>
    /\ out_dir = EmptyDir
    /\ loaded = NoOutput

\* analyze_root(root_dir, conf_threshold, detector_type, time_bucket_minutes,
\* reference_day) is called: lines 419-426.
StartAnalyzeRoot ==
    /\ pc = "idle"
    /\ \E detector_type \in DetectorTypes, threshold \in ConfThresholds,
          yolo_loads \in BOOLEAN, width \in BucketWidths,
          reference_day \in RunReferenceDays :
          LET built == build_detector(detector_type, threshold, yolo_loads)
              listed == _list_store_dirs(fs)
          IN  /\ detector' = built[1]
              /\ detector_warning' = built[2]
              /\ args' = [detector_type |-> detector_type,
                          time_bucket_minutes |-> width,
                          reference_day |-> reference_day]
              /\ store_dirs' = listed[1]
              /\ used_root_fallback_store' = listed[2]
    /\ pc' = "stores"
    /\ mode' = "root"
    /\ UNCHANGED <<fs, out_dir, loaded, cur, store_results, summary_frames, output, calls,
                   parse_in, parse_out, stores_table, registry_call,
                   employees, asset_files, sessions>>

\* store_id = store_dir.name (line 428)
StoreId(store_dir) == store_dir.name

\* analyze_root's loop calls analyze_store for the next store directory
\* (lines 427-435), which lists the directory's images (line 317).
BeginStore ==
    /\ pc = "stores"
    /\ store_dirs # << >>
    /\ cur' = [store_id |-> StoreId(Head(store_dirs)),
               images |-> _iter_store_images(Head(store_dirs)), rows |-> << >>]
    /\ store_dirs' = Tail(store_dirs)
    /\ pc' = "images"
    /\ UNCHANGED <<fs, out_dir, loaded, mode, detector, detector_warning, args,
                   used_root_fallback_store, store_results, summary_frames,
                   output, calls, parse_in, parse_out, stores_table, registry_call,
                   employees, asset_files, sessions>>

\* analyze_store(store_id, store_dir, detector, ...) is called directly, with
\* a detector of the caller's own.
StartAnalyzeStore ==
    /\ pc = "idle"
    /\ \E dir \in {d \in fs.children : d.kind = "dir"}, width \in BucketWidths,
          reference_day \in RunReferenceDays :
          /\ cur' = [store_id |-> dir.name, images |-> _iter_store_images(dir),
                     rows |-> << >>]
          /\ args' = [detector_type |-> "none",
                      time_bucket_minutes |-> width,
                      reference_day |-> reference_day]
    /\ detector' = [kind |-> "custom", conf_threshold |-> 0, reason |-> ""]
    /\ pc' = "images"
    /\ mode' = "store"
    /\ UNCHANGED <<fs, out_dir, loaded, detector_warning, store_dirs, used_root_fallback_store,
                   store_results, summary_frames, output, calls, parse_in,
                   parse_out, stores_table, registry_call,
                   employees, asset_files, sessions>>

\* A faulty loop body that validates and detects before it looks at the
\* result of parse_filename: C2 must tell it from the code's.
ImageOutcomesDetectFirst(store_id, name, reference_day, det) ==
    LET parsed == parse_filename(name, reference_day, reference_day)
        Outcome(raised, rows, ops, content) ==
            [raised |-> raised, rows |-> rows, ops |-> ops, content |-> content]
        Validating(validation) ==
            IF validation[3] THEN <<"parse", "validate", "decode">>
            ELSE <<"parse", "validate">>
    IN  IF parsed.tag = "raise"
        THEN {Outcome(TRUE, << >>, <<"parse">>, "unread")}
        ELSE UNION {
            LET validation == validate_image(content)
                row(detection) ==
                    IF parsed.tag = "none" THEN BadFilenameRow(store_id, name)
                    ELSE ParsedRow(store_id, name, parsed, validation, detection)
            IN  IF validation[1]
                THEN {Outcome(FALSE, <<row(detection)>>,
                              Validating(validation) \o <<"detect">>, content) :
                        detection \in Detect(det, name)}
                ELSE {Outcome(FALSE, <<row(NoDetection)>>,
                              Validating(validation), content)} :
            content \in Contents}

\* A faulty loop body that passes a file to the detector whatever
\* validate_image returned: C24 must tell it from the code's.
ImageOutcomesDetectInvalid(store_id, name, reference_day, det) ==
    LET parsed == parse_filename(name, reference_day, reference_day)
        Outcome(raised, rows, ops, content) ==
            [raised |-> raised, rows |-> rows, ops |-> ops, content |-> content]
        Validating(validation) ==
            IF validation[3] THEN <<"parse", "validate", "decode">>
            ELSE <<"parse", "validate">>
    IN  IF parsed.tag = "raise"
        THEN {Outcome(TRUE, << >>, <<"parse">>, "unread")}
        ELSE IF parsed.tag = "none"
        THEN {Outcome(FALSE, <<BadFilenameRow(store_id, name)>>, <<"parse">>,
                      "unread")}
        ELSE UNION {
            LET validation == validate_image(content)
            IN  {Outcome(FALSE,
                         <<ParsedRow(store_id, name, parsed, validation,
                                     IF validation[1] THEN detection
                                     ELSE NoDetection)>>,
                         Validating(validation) \o <<"detect">>, content) :
                    detection \in Detect(det, name)} :
            content \in Contents}

\* The body of analyze_store's loop for one image (lines 318-359): parse the
\* name, validate the file, detect, build the row.  Each outcome holds the
\* row appended, the calls made in order, and whether parse_filename's
\* ValueError ended the call (it is caught nowhere).
ImageOutcomes(store_id, name, reference_day, det) ==
    LET parsed == parse_filename(name, reference_day, reference_day)
        Outcome(raised, rows, ops, content) ==
            [raised |-> raised, rows |-> rows, ops |-> ops, content |-> content]
        Validating(validation) ==
            IF validation[3] THEN <<"parse", "validate", "decode">>
            ELSE <<"parse", "validate">>
    IN  IF parsed.tag = "raise"
        THEN {Outcome(TRUE, << >>, <<"parse">>, "unread")}
        ELSE IF parsed.tag = "none"
        THEN {Outcome(FALSE, <<BadFilenameRow(store_id, name)>>, <<"parse">>,
                      "unread")}
        ELSE UNION {
            LET validation == validate_image(content)
            IN  IF validation[1]
                THEN {Outcome(FALSE,
                              <<ParsedRow(store_id, name, parsed, validation,
                                          detection)>>,
                              Validating(validation) \o <<"detect">>, content) :
                        detection \in Detect(det, name)}
                ELSE {Outcome(FALSE,
                              <<ParsedRow(store_id, name, parsed, validation,
                                          NoDetection)>>,
                              Validating(validation), content)} :
            content \in Contents}

\* One iteration of analyze_store's loop (lines 317-359).
AnalyzeImage ==
    /\ pc = "images"
    /\ cur.images # << >>
    /\ \E o \in ImageOutcomes(cur.store_id, Head(cur.images).name,
                               args.reference_day, detector) :
          /\ pc' = IF o.raised THEN "raised" ELSE pc
          /\ cur' = IF o.raised THEN cur
                    ELSE [cur EXCEPT !.images = Tail(@), !.rows = @ \o o.rows]
          /\ calls' = calls \o [i \in 1..Len(o.ops) |->
                                  Call(o.ops[i], cur.store_id,
                                       Head(cur.images).name, o.content)]
    /\ UNCHANGED <<fs, out_dir, loaded, mode, detector, detector_warning, args, store_dirs,
                   used_root_fallback_store, store_results, summary_frames,
                   output, parse_in, parse_out, stores_table, registry_call,
                   employees, asset_files, sessions>>

\* analyze_store returns (lines 361-409); analyze_root records the result
\* (lines 436-437).
FinishStore ==
    /\ pc = "images"
    /\ cur.images = << >>
    /\ LET result == StoreResult(cur.store_id, cur.rows, args.time_bucket_minutes)
       IN  IF mode = "store"
           THEN /\ output' = [tag |-> "store", store |-> result]
                /\ pc' = "done"
                /\ UNCHANGED <<store_results, summary_frames>>
           ELSE /\ store_results' = DictSet(store_results, cur.store_id, result)
                /\ summary_frames' = Append(summary_frames, result.summary_row)
                /\ pc' = "stores"
                /\ output' = output
    /\ cur' = NoFrame
    /\ UNCHANGED <<fs, out_dir, loaded, mode, detector, detector_warning, args, store_dirs,
                   used_root_fallback_store, calls, parse_in, parse_out, stores_table, registry_call,
                   employees, asset_files, sessions>>

\* all_stores_summary.sort_values(by="store_id")
SummaryLess(a, b) == StrLess(a.store_id, b.store_id)

\* A faulty summary sorted by store_id descending: C8 must tell it from the
\* code's.
AllStoresSummaryDescending(frames) ==
    SortSeq(frames, LAMBDA a, b : StrLess(b.store_id, a.store_id))

\* The summary of analyze_root (lines 439-453).
AllStoresSummary(frames) == SortSeq(frames, SummaryLess)

\* analyze_root returns its AnalysisOutput (lines 439-460).
FinishRoot ==
    /\ pc = "stores"
    /\ store_dirs = << >>
    /\ output' = [tag |-> "root",
                  stores |-> store_results,
                  all_stores_summary |-> AllStoresSummary(summary_frames),
                  detector_warning |-> detector_warning,
                  used_root_fallback_store |-> used_root_fallback_store]
    /\ pc' = "done"
    /\ UNCHANGED <<fs, out_dir, loaded, mode, detector, detector_warning, args, store_dirs,
                   used_root_fallback_store, cur, store_results, summary_frames,
                   calls, parse_in, parse_out, stores_table, registry_call,
                   employees, asset_files, sessions>>

-----------------------------------------------------------------------------
(* export_analysis and load_exports *)

\* str(n) for a natural number.
RECURSIVE StrOfInt(_)
StrOfInt(n) ==
    IF n < 10 THEN <<DigitChar(n)>>
    ELSE StrOfInt(n \div 10) \o <<DigitChar(n % 10)>>

\* to_csv's text for a boolean cell, and read_csv's value for that text.
BoolText(b) == IF b THEN "True" ELSE "False"
ReadBool(cell) == cell = "True"

\* The files of an export directory.
SummaryFile == <<"a", "l", "l", "_", "s", "t", "o", "r", "e", "s", "_", "s", "u", "m", "m", "a", "r", "y", ".", "c", "s", "v">>
StorePrefix == <<"s", "t", "o", "r", "e", "_">>
ImageInsightsSuffix == <<"_", "i", "m", "a", "g", "e", "_", "i", "n", "s", "i", "g", "h", "t", "s", ".", "c", "s", "v">>
CameraHotspotsSuffix == <<"_", "c", "a", "m", "e", "r", "a", "_", "h", "o", "t", "s", "p", "o", "t", "s", ".", "c", "s", "v">>

ImageInsightsFile(store_id) == StorePrefix \o store_id \o ImageInsightsSuffix
CameraHotspotsFile(store_id) == StorePrefix \o store_id \o CameraHotspotsSuffix

\* DataFrame.to_csv(index=False): every cell as text.  Of the image-insight
\* columns, timestamp, max_person_conf and path are left out; of the hotspot
\* columns, avg_people_per_relevant_image.
SummaryCsv(all_stores_summary) ==
    [i \in 1..Len(all_stores_summary) |->
        LET r == all_stores_summary[i]
        IN  [store_id |-> r.store_id,
             total_images |-> StrOfInt(r.total_images),
             valid_images |-> StrOfInt(r.valid_images),
             relevant_images |-> StrOfInt(r.relevant_images),
             total_people |-> StrOfInt(r.total_people),
             top_camera_hotspot |-> r.top_camera_hotspot,
             peak_time_bucket |-> r.peak_time_bucket]]

ImageInsightsCsv(image_insights) ==
    [i \in 1..Len(image_insights) |->
        LET r == image_insights[i]
        IN  [store_id |-> r.store_id, filename |-> r.filename,
             camera_id |-> r.camera_id, is_valid |-> BoolText(r.is_valid),
             person_count |-> StrOfInt(r.person_count),
             relevant |-> BoolText(r.relevant),
             reject_reason |-> r.reject_reason,
             detection_error |-> r.detection_error]]

CameraHotspotsCsv(camera_hotspots) ==
    [i \in 1..Len(camera_hotspots) |->
        LET r == camera_hotspots[i]
        IN  [store_id |-> r.store_id, camera_id |-> r.camera_id,
             relevant_images |-> StrOfInt(r.relevant_images),
             total_people |-> StrOfInt(r.total_people),
             hotspot_rank |-> StrOfInt(r.hotspot_rank)]]

\* export_analysis(output, out_dir): the directory after the files are
\* written, the files already there and not written again being kept.
export_analysis(out, dir) ==
    LET ids == DOMAIN out.stores
        written == {SummaryFile}
                   \cup {ImageInsightsFile(id) : id \in ids}
                   \cup {CameraHotspotsFile(id) : id \in ids}
        Content(f) ==
            IF f = SummaryFile THEN SummaryCsv(out.all_stores_summary)
            ELSE IF \E id \in ids : f = ImageInsightsFile(id)
            THEN ImageInsightsCsv(
                    out.stores[CHOOSE id \in ids : f = ImageInsightsFile(id)]
                        .image_insights)
            ELSE CameraHotspotsCsv(
                    out.stores[CHOOSE id \in ids : f = CameraHotspotsFile(id)]
                        .camera_hotspots)
    IN  [f \in DOMAIN dir \cup written |->
            IF f \in written THEN Content(f) ELSE dir[f]]

\* read_csv infers a column's type from its text: a store_id column whose
\* cells are all integer literals is read as integers.
ReadAsIntegers(cells) ==
    /\ Len(cells) > 0
    /\ \A i \in 1..Len(cells) : Len(cells[i]) > 0 /\ AllDigits(cells[i])

\* all_stores_summary["store_id"].astype(str).tolist(), after read_csv.
ReadStoreIds(cells) ==
    IF ReadAsIntegers(cells)
    THEN [i \in 1..Len(cells) |-> StrOfInt(IntOf(cells[i]))]
    ELSE cells

\* read_csv on the per-store files.
ReadImageInsights(table) ==
    [i \in 1..Len(table) |->
        [table[i] EXCEPT !.is_valid = ReadBool(@),
                         !.relevant = ReadBool(@),
                         !.person_count = IntOf(@)]]

ReadCameraHotspots(table) ==
    [i \in 1..Len(table) |->
        [table[i] EXCEPT !.relevant_images = IntOf(@),
                         !.total_people = IntOf(@),
                         !.hotspot_rank = IntOf(@)]]

\* load_exports(out_dir)
load_exports(dir) ==
    IF SummaryFile \notin DOMAIN dir
    THEN [tag |-> "root", stores |-> EmptyDict, all_stores_summary |-> << >>,
          detector_warning |-> "", used_root_fallback_store |-> FALSE]
    ELSE LET table == dir[SummaryFile]
             cells == [i \in 1..Len(table) |-> table[i].store_id]
             ids == ReadStoreIds(cells)
             summary == [i \in 1..Len(table) |->
                            [table[i] EXCEPT !.store_id = ids[i]]]
             present == {id \in Range(ids) :
                            /\ ImageInsightsFile(id) \in DOMAIN dir
                            /\ CameraHotspotsFile(id) \in DOMAIN dir}
         IN  [tag |-> "root",
              stores |->
                [id \in present |->
                    [image_insights |-> ReadImageInsights(dir[ImageInsightsFile(id)]),
                     camera_hotspots |->
                        ReadCameraHotspots(dir[CameraHotspotsFile(id)]),
                     summary_row |->
                        IF ReadAsIntegers(cells) THEN << >>
                        ELSE SelectSeq(summary, LAMBDA r : r.store_id = id)]],
              all_stores_summary |-> summary,
              detector_warning |-> "",
              used_root_fallback_store |-> FALSE]

\* export_analysis(output, out_dir) is called on what analyze_root returned.
ExportAnalysis ==
    /\ pc = "done"
    /\ mode = "root"
    /\ out_dir' = export_analysis(output, out_dir)
    /\ pc' = "exported"
    /\ UNCHANGED <<fs, mode, detector, detector_warning, args, store_dirs,
                   used_root_fallback_store, cur, store_results, summary_frames,
                   output, calls, loaded, parse_in, parse_out, stores_table, registry_call,
                   employees, asset_files, sessions>>

\* load_exports(out_dir) is called on the directory exported to.
LoadExports ==
    /\ pc = "exported"
    /\ loaded' = load_exports(out_dir)
    /\ pc' = "loaded"
    /\ UNCHANGED <<fs, mode, detector, detector_warning, args, store_dirs,
                   used_root_fallback_store, cur, store_results, summary_frames,
                   output, calls, out_dir, parse_in, parse_out, stores_table, registry_call,
                   employees, asset_files, sessions>>

\* The rows analyze_store can collect from a list of images (lines 317-359),
\* one sequence for each way the files' contents and the detections can turn
\* out; none when parse_filename raises on one of them.
RECURSIVE analyze_store_rows(_, _, _, _)
analyze_store_rows(store_id, images, reference_day, det) ==
    IF images = << >> THEN {<< >>}
    ELSE {o.rows \o rest :
            o \in {x \in ImageOutcomes(store_id, Head(images).name,
                                        reference_day, det) : ~x.raised},
            rest \in analyze_store_rows(store_id, Tail(images), reference_day, det)}

\* analyze_root(root_dir, conf_threshold, detector_type, time_bucket_minutes,
\* reference_day) as one call: the AnalysisOutputs it can return.
analyze_root(root, conf_threshold, detector_type, yolo_loads, time_bucket_minutes, reference_day) ==
    LET built == build_detector(detector_type, conf_threshold, yolo_loads)
        listed == _list_store_dirs(root)
        dirs == listed[1]
        RowsOf(d) == analyze_store_rows(StoreId(d), _iter_store_images(d),
                                        reference_day, built[1])
        choices == {f \in [Range(dirs) -> UNION {RowsOf(d) : d \in Range(dirs)}] :
                       \A d \in Range(dirs) : f[d] \in RowsOf(d)}
        Result(f, d) == StoreResult(StoreId(d), f[d], time_bucket_minutes)
    IN  {[tag |-> "root",
          stores |-> [id \in {StoreId(d) : d \in Range(dirs)} |->
                        Result(f, CHOOSE d \in Range(dirs) : StoreId(d) = id)],
          all_stores_summary |->
              AllStoresSummary([i \in 1..Len(dirs) |-> Result(f, dirs[i]).summary_row]),
          detector_warning |-> built[2],
          used_root_fallback_store |-> listed[2]] : f \in choices}

\* The roots the dashboard is pointed at, one after another: a store named
\* "001"; a store named "1" beside an empty store "s1"; no store.
ExportTrees ==
    {Dir(RootName, {Dir(NumericDir, {File(FirstImage)})}),
     Dir(RootName, {Dir(<<"1">>, {File(SecondImage)}), Dir(StoreOne, {})}),
     Dir(RootName, {})}

\* _run_analysis(root_dir, out_dir, ...) of the dashboard (lines 26-36), with
\* the mock detector: analyze_root, then export_analysis into out_dir.
RunAnalysis ==
    /\ pc \in {"idle", "exported", "loaded"}
    /\ \E root \in ExportTrees :
          /\ fs' = root
          /\ args' = [detector_type |-> "mock", time_bucket_minutes |-> 1,
                      reference_day |-> 1]
          /\ \E out \in analyze_root(root, 250, "mock", TRUE, 1, 1) :
                /\ output' = out
                /\ out_dir' = export_analysis(out, out_dir)
    /\ pc' = "exported"
    /\ mode' = "root"
    /\ UNCHANGED <<detector, detector_warning, store_dirs, used_root_fallback_store,
                   cur, store_results, summary_frames, calls, loaded,
                   parse_in, parse_out, stores_table, registry_call,
                   employees, asset_files, sessions>>

\* _load_or_run_default(root_dir, out_dir) of the dashboard (lines 57-68):
\* what load_exports returns is kept when its summary has a row; otherwise
\* the analysis is run with the yolo detector and exported.
LoadOrRunDefault ==
    /\ pc \in {"idle", "exported", "loaded"}
    /\ loaded' = load_exports(out_dir)
    /\ IF loaded'.all_stores_summary # << >>
       THEN /\ pc' = "loaded"
            /\ UNCHANGED <<fs, mode, args, output, out_dir>>
       ELSE /\ \E root \in ExportTrees, yolo_loads \in BOOLEAN :
                  /\ fs' = root
                  /\ args' = [detector_type |-> "yolo", time_bucket_minutes |-> 1,
                              reference_day |-> 1]
                  /\ \E out \in analyze_root(root, 250, "yolo", yolo_loads, 1, 1) :
                        /\ output' = out
                        /\ out_dir' = export_analysis(out, out_dir)
            /\ pc' = "exported"
            /\ mode' = "root"
    /\ UNCHANGED <<detector, detector_warning, store_dirs, used_root_fallback_store,
                   cur, store_results, summary_frames, calls,
                   parse_in, parse_out, stores_table, registry_call,
                   employees, asset_files, sessions>>

-----------------------------------------------------------------------------
(* The store registry (src/store_registry.py) *)

\* The characters str.strip() removes from both ends.
Whitespace == {" ", "\n"}

\* str.strip()
RECURSIVE Strip(_)
Strip(s) ==
    IF Len(s) = 0 THEN s
    ELSE IF Head(s) \in Whitespace THEN Strip(Tail(s))
    ELSE IF s[Len(s)] \in Whitespace THEN Strip(SubSeq(s, 1, Len(s) - 1))
    ELSE s

\* SQLite's lower(): the ASCII letters folded, as str.lower() folds them.
SqlLower(s) == Lower(s)

\* A row of the stores table; created_at and updated_at are left out.
StoreRecord(store_id, store_name, email, drive_folder_url) ==
    [store_id |-> store_id, store_name |-> store_name, email |-> email,
     drive_folder_url |-> drive_folder_url]

\* The outcome of a registry call: returned or raised, and the value.
Returned(value) == [raised |-> "", value |-> value]
Raised(exception) == [raised |-> exception, value |-> << >>]

\* A faulty upsert_store that does not lower-case the email and compares it
\* as written: C20 must tell it from the code's.
upsert_store_case_sensitive(table, store_id, store_name, email, drive_folder_url) ==
    LET normalized_store_id == Strip(store_id)
        normalized_store_name == Strip(store_name)
        normalized_email == Strip(email)
        normalized_drive_url == Strip(drive_folder_url)
        record == StoreRecord(normalized_store_id, normalized_store_name,
                              normalized_email, normalized_drive_url)
        existing == {r \in table : /\ r.email = normalized_email
                                   /\ r.store_id # normalized_store_id}
        row == {r \in table : r.store_id = normalized_store_id}
        others == table \ row
    IN  IF normalized_store_id = EmptyStr \/ normalized_store_name = EmptyStr
           \/ normalized_email = EmptyStr
        THEN <<table, Raised("ValueError")>>
        ELSE IF existing # {} THEN <<table, Raised("ValueError")>>
        ELSE IF \E r \in others : r.email = normalized_email
        THEN <<table, Raised("IntegrityError")>>
        ELSE <<others \cup {record}, Returned(<< >>)>>

\* upsert_store(db_path, store_id, store_name, email, drive_folder_url) on
\* the stores table: <<the table afterwards, the outcome>>.  The INSERT and
\* the UPDATE are subject to the table's UNIQUE(email) constraint.
upsert_store(table, store_id, store_name, email, drive_folder_url) ==
    LET normalized_store_id == Strip(store_id)
        normalized_store_name == Strip(store_name)
        normalized_email == Lower(Strip(email))
        normalized_drive_url == Strip(drive_folder_url)
        record == StoreRecord(normalized_store_id, normalized_store_name,
                              normalized_email, normalized_drive_url)
        existing == {r \in table : /\ SqlLower(r.email) = SqlLower(normalized_email)
                                   /\ r.store_id # normalized_store_id}
        row == {r \in table : r.store_id = normalized_store_id}
        others == table \ row
    IN  IF normalized_store_id = EmptyStr \/ normalized_store_name = EmptyStr
           \/ normalized_email = EmptyStr
        THEN <<table, Raised("ValueError")>>
        ELSE IF existing # {} THEN <<table, Raised("ValueError")>>
        ELSE IF \E r \in others : r.email = normalized_email
        THEN <<table, Raised("IntegrityError")>>
        ELSE <<others \cup {record}, Returned(<< >>)>>

\* get_store_by_email(db_path, email): the records found, none or one
\* (fetchone takes one of the rows matching).
get_store_by_email(table, email) ==
    LET normalized_email == Lower(Strip(email))
        found == {r \in table : SqlLower(r.email) = SqlLower(normalized_email)}
    IN  IF normalized_email = EmptyStr \/ found = {} THEN << >>
        ELSE <<CHOOSE r \in found : TRUE>>

\* The arguments the registry is called with.
PaddedStoreOne == <<" ">> \o StoreOne \o <<" ">>
RegistryStoreIds == {StoreOne, StoreTwo, PaddedStoreOne, EmptyStr}
RegistryNames == {<<"n">>, <<"m">>, <<" ">>}
EmailD == <<"d", "@", "x">>
EmailP == <<"p", "@", "x">>
RegistryEmails ==
    {EmailD, <<"D", "@", "x">>, <<" ", "D", "@", "x", "\n">>, EmailP,
     <<"P", "@", "x">>, <<" ">>}
RegistryUrls == {EmptyStr}

NoCall == [op |-> "none"]

\* The sessions that call upsert_store on the same database, each outside
\* any call at first.
Sessions == {"a", "b"}
IdleSession == [at |-> "idle"]

InitRegistry ==
    /\ stores_table = {}
    /\ registry_call = NoCall
    /\ employees = << >>
    /\ asset_files = {}
    /\ sessions = [s \in Sessions |-> IdleSession]

\* upsert_store is called.
UpsertStore ==
    /\ \E store_id \in RegistryStoreIds, store_name \in RegistryNames,
          email \in RegistryEmails, drive_folder_url \in RegistryUrls :
          LET done == upsert_store(stores_table, store_id, store_name, email,
                                   drive_folder_url)
          IN  /\ stores_table' = done[1]
              /\ registry_call' = [op |-> "upsert_store", store_id |-> store_id,
                                   store_name |-> store_name, email |-> email,
                                   outcome |-> done[2]]
    /\ UNCHANGED <<employees, asset_files, sessions>>

\* get_store_by_email is called.
GetStoreByEmail ==
    /\ \E email \in RegistryEmails :
          registry_call' = [op |-> "get_store_by_email", email |-> email,
                            outcome |-> Returned(get_store_by_email(stores_table,
                                                                    email))]
    /\ UNCHANGED <<stores_table, employees, asset_files, sessions>>

\* The characters re.sub(r"[^a-zA-Z0-9_-]+", "_", ...) keeps.
SafeChars ==
    Digits \cup {"_", "-", "a", "b", "d", "e", "g", "h", "j", "m", "n", "o", "p",
                 "r", "s", "t", "w", "x", "C", "D", "G", "J", "P"}

\* re.sub(r"[^a-zA-Z0-9_-]+", "_", name): each run of other characters
\* becomes one underscore.
RECURSIVE SubUnsafe(_)
SubUnsafe(s) ==
    IF Len(s) = 0 THEN s
    ELSE IF Head(s) \in SafeChars THEN <<Head(s)>> \o SubUnsafe(Tail(s))
    ELSE IF Len(s) > 1 /\ s[2] \notin SafeChars THEN SubUnsafe(Tail(s))
    ELSE <<"_">> \o SubUnsafe(Tail(s))

\* str.strip("_")
RECURSIVE StripUnderscores(_)
StripUnderscores(s) ==
    IF Len(s) = 0 THEN s
    ELSE IF Head(s) = "_" THEN StripUnderscores(Tail(s))
    ELSE IF s[Len(s)] = "_" THEN StripUnderscores(SubSeq(s, 1, Len(s) - 1))
    ELSE s

\* safe_name (lines 219-221)
SafeName(employee_name) ==
    LET safe_name == StripUnderscores(SubUnsafe(employee_name))
    IN  IF safe_name = EmptyStr
        THEN <<"e", "m", "p", "l", "o", "y", "e", "e">> ELSE safe_name

\* extension (lines 222-224)
Extension(original_filename) ==
    LET extension == IF Lower(PathSuffix(original_filename)) = EmptyStr
                     THEN DotJpg ELSE Lower(PathSuffix(original_filename))
    IN  IF extension \notin IMAGE_EXTENSIONS THEN DotJpg ELSE extension

\* target_path: the store's directory under employee_assets_root and a file
\* name made of the time and a random token (serial stands for both, fresh
\* at every call), the safe name and the extension.
TargetPath(store_id, serial, safe_name, extension) ==
    [dir |-> store_id, serial |-> serial, safe_name |-> safe_name,
     extension |-> extension]

\* A row of the employees table; created_at is left out.
EmployeeRecord(id, store_id, employee_name, image_path) ==
    [id |-> id, store_id |-> store_id, employee_name |-> employee_name,
     image_path |-> image_path]

\* A faulty add_employee_image that does not look the store up: C21 must
\* tell it from the code's.
add_employee_image_unchecked(table, rows, files, store_id, employee_name, original_filename) ==
    LET normalized_store_id == Strip(store_id)
        normalized_employee_name == Strip(employee_name)
        target_path == TargetPath(normalized_store_id, Len(rows) + 1,
                                  SafeName(normalized_employee_name),
                                  Extension(original_filename))
    IN  IF normalized_store_id = EmptyStr \/ normalized_employee_name = EmptyStr
        THEN <<rows, files, Raised("ValueError")>>
        ELSE <<Append(rows, EmployeeRecord(Len(rows) + 1, normalized_store_id,
                                           normalized_employee_name, target_path)),
               files \cup {target_path}, Returned(target_path)>>

\* add_employee_image(db_path, employee_assets_root, store_id, employee_name,
\* original_filename, content) on the stores table, the employees table and
\* the files under employee_assets_root: <<the employees table and the files
\* afterwards, the outcome>>.
add_employee_image(table, rows, files, store_id, employee_name, original_filename) ==
    LET normalized_store_id == Strip(store_id)
        normalized_employee_name == Strip(employee_name)
        exists == \E r \in table : r.store_id = normalized_store_id
        target_path == TargetPath(normalized_store_id, Len(rows) + 1,
                                  SafeName(normalized_employee_name),
                                  Extension(original_filename))
    IN  IF normalized_store_id = EmptyStr \/ normalized_employee_name = EmptyStr
        THEN <<rows, files, Raised("ValueError")>>
        ELSE IF ~exists THEN <<rows, files, Raised("ValueError")>>
        ELSE <<Append(rows, EmployeeRecord(Len(rows) + 1, normalized_store_id,
                                           normalized_employee_name, target_path)),
               files \cup {target_path}, Returned(target_path)>>

\* The most employee images uploaded in a run of the model.
MaxEmployees == 2

EmployeeNames == {<<"n">>, <<".", "n", " ">>, <<" ">>}
OriginalFilenames == {TextFile, <<"a", ".", "J", "P", "G">>}

\* add_employee_image is called.
AddEmployeeImage ==
    /\ Len(employees) < MaxEmployees
    /\ \E store_id \in RegistryStoreIds, employee_name \in EmployeeNames,
          original_filename \in OriginalFilenames :
          LET done == add_employee_image(stores_table, employees, asset_files,
                                         store_id, employee_name, original_filename)
          IN  /\ employees' = done[1]
              /\ asset_files' = done[2]
              /\ registry_call' = [op |-> "add_employee_image",
                                   store_id |-> store_id,
                                   employee_name |-> employee_name,
                                   outcome |-> done[3]]
    /\ UNCHANGED <<stores_table, sessions>>

\* A faulty table without its PRIMARY KEY and UNIQUE constraints: C29 must
\* tell it from the code's.
write_store_unconstrained(table, row_is_none, record) ==
    IF row_is_none THEN <<table \cup {record}, Returned(<< >>)>>
    ELSE <<{r \in table : r.store_id # record.store_id}
              \cup {record : r \in {x \in table : x.store_id = record.store_id}},
           Returned(<< >>)>>

\* The INSERT (when the call's SELECT found no row) or the UPDATE of
\* upsert_store, and its commit (lines 91-119), on the table as it is when
\* the statement runs: <<the table afterwards, the outcome>>.  store_id is
\* the PRIMARY KEY and email is UNIQUE (lines 35-37): a statement that would
\* break either raises sqlite3.IntegrityError and changes nothing.
write_store(table, row_is_none, record) ==
    LET others == {r \in table : r.store_id # record.store_id}
    IN  IF row_is_none /\ others # table
        THEN <<table, Raised("IntegrityError")>>
        ELSE IF (row_is_none \/ others # table)
                /\ \E r \in others : r.email = record.email
        THEN <<table, Raised("IntegrityError")>>
        ELSE IF row_is_none THEN <<table \cup {record}, Returned(<< >>)>>
        ELSE <<others \cup {record : r \in table \ others}, Returned(<< >>)>>

\* The arguments the sessions call upsert_store with.
SessionStoreIds == {StoreOne, StoreTwo}
SessionNames == {<<"n">>, <<"m">>}
SessionEmails == {EmailD, <<"D", "@", "x">>, EmailP}

\* A session calls upsert_store: the arguments are normalised (lines 69-74)
\* and the first SELECT looks for the email under another store_id (lines
\* 79-84).
UpsertSelectExisting(s) ==
    /\ sessions[s].at \in {"idle", "done"}
    /\ \E store_id \in SessionStoreIds, store_name \in SessionNames,
          email \in SessionEmails :
          LET record == StoreRecord(Strip(store_id), Strip(store_name),
                                    Lower(Strip(email)), EmptyStr)
              existing == {r \in stores_table :
                              /\ SqlLower(r.email) = SqlLower(record.email)
                              /\ r.store_id # record.store_id}
          IN  sessions' = [sessions EXCEPT ![s] =
                  IF record.store_id = EmptyStr \/ record.store_name = EmptyStr
                     \/ record.email = EmptyStr \/ existing # {}
                  THEN [at |-> "done", record |-> record, row_is_none |-> FALSE,
                        outcome |-> Raised("ValueError")]
                  ELSE [at |-> "row", record |-> record, row_is_none |-> FALSE,
                        outcome |-> Returned(<< >>)]]
    /\ UNCHANGED <<stores_table, registry_call, employees, asset_files>>

\* The second SELECT looks for the store_id (lines 86-88).
UpsertSelectRow(s) ==
    /\ sessions[s].at = "row"
    /\ sessions' = [sessions EXCEPT ![s] =
          [@ EXCEPT !.at = "write",
                    !.row_is_none = \A r \in stores_table :
                                       r.store_id # sessions[s].record.store_id]]
    /\ UNCHANGED <<stores_table, registry_call, employees, asset_files>>

\* The INSERT or UPDATE and the commit (lines 89-119).
UpsertWrite(s) ==
    /\ sessions[s].at = "write"
    /\ LET written == write_store(stores_table, sessions[s].row_is_none,
                                  sessions[s].record)
       IN  /\ stores_table' = written[1]
           /\ sessions' = [sessions EXCEPT ![s] =
                  [@ EXCEPT !.at = "done", !.outcome = written[2]]]
    /\ UNCHANGED <<registry_call, employees, asset_files>>

-----------------------------------------------------------------------------
(* Specifications *)

Init == InitAnalysis /\ InitParse /\ InitRegistry

Next ==
    \/ StartAnalyzeRoot
    \/ BeginStore
    \/ StartAnalyzeStore
    \/ AnalyzeImage
    \/ FinishStore
    \/ FinishRoot
    \/ ExportAnalysis
    \/ LoadExports

\* The analysis pipeline over the directory trees.
Spec == Init /\ [][Next]_vars

\* The analysis has not been started.
AnalysisIdle ==
    /\ fs = Dir(RootName, {})
    /\ pc = "idle"
    /\ mode = "none"
    /\ detector = NoDetector
    /\ detector_warning = ""
    /\ args = NoArgs
    /\ store_dirs = << >>
    /\ used_root_fallback_store = FALSE
    /\ cur = NoFrame
    /\ store_results = EmptyDict
    /\ summary_frames = << >>
    /\ output = NoOutput
    /\ calls = << >>
    /\ out_dir = EmptyDir
    /\ loaded = NoOutput

InitParseOnly == InitParse /\ AnalysisIdle /\ InitRegistry

NextParse == CallParseFilename /\ UNCHANGED <<analysisVars, registryVars>>

\* parse_filename on its own, over ParseNames.
SpecParse == InitParseOnly /\ [][NextParse]_vars

InitRegistryOnly == InitRegistry /\ AnalysisIdle /\ InitParse

NextRegistry ==
    \/ UpsertStore /\ UNCHANGED <<analysisVars, parseVars>>
    \/ GetStoreByEmail /\ UNCHANGED <<analysisVars, parseVars>>
    \/ AddEmployeeImage /\ UNCHANGED <<analysisVars, parseVars>>

\* The store registry on its own.
SpecRegistry == InitRegistryOnly /\ [][NextRegistry]_vars

NextSessions ==
    \/ \E s \in Sessions : UpsertSelectExisting(s) /\ UNCHANGED <<analysisVars, parseVars>>
    \/ \E s \in Sessions : UpsertSelectRow(s) /\ UNCHANGED <<analysisVars, parseVars>>
    \/ \E s \in Sessions : UpsertWrite(s) /\ UNCHANGED <<analysisVars, parseVars>>

\* upsert_store called by concurrent sessions, statement by statement.
SpecSessions == InitRegistryOnly /\ [][NextSessions]_vars

InitExport == AnalysisIdle /\ InitParse /\ InitRegistry

NextExport ==
    \/ RunAnalysis
    \/ LoadOrRunDefault
    \/ LoadExports

\* Runs of the dashboard's analysis into one export directory, and loads of
\* what it holds.
SpecExport == InitExport /\ [][NextExport]_vars

-----------------------------------------------------------------------------
(* Properties: what every state holds of the results produced so far *)

\* Every StoreAnalysisResult produced so far.
AllResults ==
    {store_results[k] : k \in DOMAIN store_results}
    \cup (IF output.tag = "store" THEN {output.store} ELSE {})
    \cup (IF output.tag = "root"
          THEN {output.stores[k] : k \in DOMAIN output.stores} ELSE {})

\* Every image-insight row produced so far.
AllRows ==
    Range(cur.rows) \cup UNION {Range(res.image_insights) : res \in AllResults}

Subdirs == {d \in fs.children : d.kind = "dir"}

HasImageSuffix(name) == Lower(PathSuffix(name)) \in IMAGE_EXTENSIONS

\* C1: in every image-insight row produced by analyze_store, with any
\* directory contents and any detector, relevant is true if and only if
\* is_valid is true, detection_error is empty and person_count >= 1.
C1_RelevantIffValidDetected ==
    \A r \in AllRows :
        r.relevant <=> (r.is_valid /\ r.detection_error = "" /\ r.person_count >= 1)

\* C1's case: a result of analyze_store that holds a relevant row, a row of a
\* valid image with people and a detection error, and a row of an invalid image.
C1_Witness ==
    /\ output.tag = "store"
    /\ \E r1, r2, r3 \in Range(output.store.image_insights) :
          /\ r1.relevant
          /\ r2.is_valid /\ r2.person_count >= 1 /\ r2.detection_error # ""
          /\ ~r2.relevant
          /\ ~r3.is_valid /\ r3.reject_reason = "zero_byte" /\ ~r3.relevant

\* The name does not parse: parse_filename returns None.
Unparsed(name) == parse_filename(name, 1, 1).tag = "none"

\* C2: an image file whose name does not parse is never passed to the image
\* validator or to the detector, and it has a row, which has
\* reject_reason "bad_filename", is_valid false, relevant false, an empty
\* camera_id, person_count 0 and an empty detection_error.
C2_UnparsedNeverDetected ==
    /\ \A i \in 1..Len(calls) :
          Unparsed(calls[i].filename) =>
             /\ calls[i].op = "parse"
             /\ \E r \in AllRows : /\ r.filename = calls[i].filename
                                    /\ r.store_id = calls[i].store_id
    /\ \A r \in AllRows :
          Unparsed(r.filename) =>
             /\ r.reject_reason = "bad_filename"
             /\ ~r.is_valid
             /\ ~r.relevant
             /\ r.camera_id = EmptyStr
             /\ r.person_count = 0
             /\ r.detection_error = ""

\* C2's case: a finished store in which an unparsed file was met and, after
\* it, another file was validated and passed to the detector.
C2_Witness ==
    /\ pc = "done"
    /\ \E i, j \in 1..Len(calls) :
          /\ i < j
          /\ Unparsed(calls[i].filename)
          /\ HasImageSuffix(calls[i].filename)
          /\ calls[j].op = "detect"
    /\ \E r \in AllRows : r.reject_reason = "bad_filename"

\* The camera ids of a result's rows, the empty one left out.
CamerasOf(res) == {r.camera_id : r \in Range(res.image_insights)} \ {EmptyStr}

\* C3: the camera hotspots of a row set hold exactly one row for each
\* distinct non-empty camera_id of any row, relevant or not, and the
\* hotspot_rank values of those K rows are exactly 1..K.
C3_HotspotRanksDense ==
    \A res \in AllResults :
        LET hs == res.camera_hotspots
            cams == CamerasOf(res)
        IN  /\ Len(hs) = Cardinality(cams)
            /\ {hs[i].camera_id : i \in 1..Len(hs)} = cams
            /\ {hs[i].hotspot_rank : i \in 1..Len(hs)} = 1..Cardinality(cams)

\* C3's case: a result with three cameras, one of them with a relevant row
\* and one with none.
C3_Witness ==
    \E res \in AllResults :
        /\ Cardinality(CamerasOf(res)) = 3
        /\ \E r \in Range(res.image_insights) : r.relevant
        /\ \E h \in Range(res.camera_hotspots) : h.relevant_images = 0
        /\ \E h \in Range(res.camera_hotspots) : h.relevant_images > 0

\* C4: of two distinct cameras of a hotspot set, a has the smaller
\* hotspot_rank exactly when a's average is greater, or the averages are
\* equal and a's total_people is greater, or both are equal and a's
\* camera_id is the smaller string.
C4_RankFollowsSortKey ==
    \A res \in AllResults :
        \A a, b \in Range(res.camera_hotspots) :
            a.camera_id # b.camera_id =>
               (a.hotspot_rank < b.hotspot_rank <=>
                  \/ a.avg_people_per_relevant_image > b.avg_people_per_relevant_image
                  \/ /\ a.avg_people_per_relevant_image = b.avg_people_per_relevant_image
                     /\ a.total_people > b.total_people
                  \/ /\ a.avg_people_per_relevant_image = b.avg_people_per_relevant_image
                     /\ a.total_people = b.total_people
                     /\ StrLess(a.camera_id, b.camera_id))

\* C4's case: two cameras with relevant images tied on average and total,
\* ranked by camera_id, and a third behind them.
C4_Witness ==
    \E res \in AllResults :
        \E a, b, c \in Range(res.camera_hotspots) :
            /\ a.relevant_images > 0
            /\ a.avg_people_per_relevant_image = b.avg_people_per_relevant_image
            /\ a.total_people = b.total_people
            /\ a.hotspot_rank = 1 /\ b.hotspot_rank = 2 /\ c.hotspot_rank = 3
            /\ StrLess(a.camera_id, b.camera_id)

\* The summary row of a store without images.
ZeroSummary(store_id) ==
    [store_id |-> store_id, total_images |-> 0, valid_images |-> 0,
     relevant_images |-> 0, total_people |-> 0, top_camera_hotspot |-> EmptyStr,
     peak_time_bucket |-> EmptyStr]

\* The store directories without an image file: subdirectories, not hidden,
\* that hold nothing at all.
EmptyStoreDirs ==
    {d \in Subdirs : d.children = {} /\ ~StartsWith(d.name, <<".">>)}

\* C5: a store directory with zero image files is in the stores and in
\* all_stores_summary of analyze_root's result; its summary row has all
\* counts 0 and empty top_camera_hotspot and peak_time_bucket, and its
\* hotspot set has no rows.
C5_EmptyStoreReported ==
    output.tag = "root" =>
        \A d \in EmptyStoreDirs :
            /\ d.name \in DOMAIN output.stores
            /\ output.stores[d.name].image_insights = << >>
            /\ output.stores[d.name].camera_hotspots = << >>
            /\ output.stores[d.name].summary_row = ZeroSummary(d.name)
            /\ Cardinality({i \in 1..Len(output.all_stores_summary) :
                   output.all_stores_summary[i].store_id = d.name}) = 1
            /\ ZeroSummary(d.name) \in Range(output.all_stores_summary)

\* C5's case: a result of analyze_root over an empty store directory and a
\* store with an image.
C5_Witness ==
    /\ output.tag = "root"
    /\ EmptyStoreDirs # {}
    /\ \E k \in DOMAIN output.stores : output.stores[k].image_insights # << >>

\* The subdirectory qualifies as a store: its name does not start with a
\* dot and it holds a file with an image extension, or no file and no
\* subdirectory.
Qualifies(d) ==
    /\ d.name[1] # "."
    /\ \/ \E c \in d.children : c.kind = "file" /\ HasImageSuffix(c.name)
       \/ ~\E c \in d.children : c.kind \in {"file", "dir"}

\* The store directories analyze_root discovered: those to come, the one
\* being analyzed and those analyzed.
Discovered ==
    {store_dirs[i].name : i \in 1..Len(store_dirs)}
    \cup (IF pc \in {"images", "raised"} THEN {cur.store_id} ELSE {})
    \cup DOMAIN store_results

\* C6: a subdirectory of the root is discovered as a store if and only if it
\* qualifies; a non-empty subdirectory holding only non-image files or only
\* subdirectories is never a store.
C6_StoreIffQualifies ==
    mode = "root" =>
        \A d \in Subdirs :
            (~used_root_fallback_store /\ d.name \in Discovered) <=> Qualifies(d)

\* C6's case: analyze_root over a root with a store directory, a directory
\* holding only a text file and a hidden directory holding an image.
C6_Witness ==
    /\ mode = "root"
    /\ pc = "done"
    /\ \E d1, d2, d3 \in Subdirs :
          /\ d1.name \in Discovered
          /\ d2.children = {File(TextFile)} /\ d2.name \notin Discovered
          /\ StartsWith(d3.name, <<".">>) /\ d3.children = {File(FirstImage)}
          /\ d3.name \notin Discovered

RootHasImage == \E e \in fs.children : e.kind = "file" /\ HasImageSuffix(e.name)

\* C7: root classification is a three-way decision in fixed order: the
\* qualifying subdirectories are the stores and used_root_fallback_store is
\* false; else, when the root holds an image file, the root is the only
\* store and used_root_fallback_store is true; else there are no stores, the
\* summary is empty and used_root_fallback_store is false.
C7_ThreeWayClassification ==
    output.tag = "root" =>
        LET qualifying == {d \in Subdirs : Qualifies(d)}
        IN  IF qualifying # {}
            THEN /\ DOMAIN output.stores = {d.name : d \in qualifying}
                 /\ ~output.used_root_fallback_store
            ELSE IF RootHasImage
            THEN /\ DOMAIN output.stores = {fs.name}
                 /\ output.used_root_fallback_store
            ELSE /\ DOMAIN output.stores = {}
                 /\ output.all_stores_summary = << >>
                 /\ ~output.used_root_fallback_store

\* C7's case: the root, holding an image and a subdirectory that does not
\* qualify, was analyzed as the single fallback store.
C7_Witness ==
    /\ output.tag = "root"
    /\ output.used_root_fallback_store
    /\ Subdirs # {}
    /\ output.stores[fs.name].image_insights # << >>

\* C8: all_stores_summary has exactly one row for each discovered store, its
\* store_id values are the keys of stores, each the name of the store's
\* directory, and its rows are in ascending store_id order.
C8_SummaryOneRowPerStoreSorted ==
    output.tag = "root" =>
        LET summary == output.all_stores_summary
            keys == DOMAIN output.stores
        IN  /\ Len(summary) = Cardinality(keys)
            /\ {summary[i].store_id : i \in 1..Len(summary)} = keys
            /\ keys = IF output.used_root_fallback_store THEN {fs.name}
                      ELSE {d.name : d \in {x \in Subdirs : Qualifies(x)}}
            /\ \A k \in keys : output.stores[k].summary_row \in Range(summary)
            /\ \A k \in keys : output.stores[k].summary_row.store_id = k
            /\ \A i, j \in 1..Len(summary) :
                  i < j => StrLess(summary[i].store_id, summary[j].store_id)

\* C8's case: a result of analyze_root with two stores.
C8_Witness ==
    /\ output.tag = "root"
    /\ Len(output.all_stores_summary) = 2
    /\ Cardinality(DOMAIN output.stores) = 2

-----------------------------------------------------------------------------
(* Properties of parse_filename, under SpecParse *)

\* C9: parse_filename never raises, and for every filename matching the
\* pattern, whatever the digits of its hour, minute and second fields, it
\* returns a ParsedFilename.
C9_ParseNeverRaises ==
    parse_in.tag = "call" =>
        /\ parse_out.tag \in {"none", "parsed"}
        /\ FILE_PATTERN(parse_in.filename) # EmptyStr => parse_out.tag = "parsed"

UppercaseLetters == {"C", "D", "G", "J", "P"}

\* The name is HH-MM-SS_Cnn-f.jpg: a time of day in two-digit fields, a
\* camera id of one of the letters and two digits, a frame number of one or
\* more digits.
SnapshotName(name, letters) ==
    /\ Len(name) >= 18
    /\ \A i \in {1, 2, 4, 5, 7, 8, 11, 12} : name[i] \in Digits
    /\ name[3] = "-" /\ name[6] = "-" /\ name[9] = "_" /\ name[13] = "-"
    /\ name[10] \in letters
    /\ \A i \in 14..(Len(name) - 4) : name[i] \in Digits
    /\ SubSeq(name, Len(name) - 3, Len(name)) = <<".", "j", "p", "g">>
    /\ IntOf(SubSeq(name, 1, 2)) <= 23
    /\ IntOf(SubSeq(name, 4, 5)) <= 59
    /\ IntOf(SubSeq(name, 7, 8)) <= 59

\* The ParsedFilename the claim describes for a snapshot name.
ParsedAsNamed ==
    LET name == parse_in.filename
    IN  /\ parse_out.tag = "parsed"
        /\ parse_out.camera_id = SubSeq(name, 10, 12)
        /\ parse_out.frame_no = IntOf(SubSeq(name, 14, Len(name) - 4))
        /\ parse_out.timestamp.hour = IntOf(SubSeq(name, 1, 2))
        /\ parse_out.timestamp.minute = IntOf(SubSeq(name, 4, 5))
        /\ parse_out.timestamp.second = IntOf(SubSeq(name, 7, 8))
        /\ parse_out.timestamp.day =
              IF parse_in.reference_day = 0 THEN parse_in.today
              ELSE parse_in.reference_day

-----------------------------------------------------------------------------
(* Properties of a whole run, under Spec *)

\* C11: analyze_root with a built-in detector always completes: no single
\* image, whatever its name and content, raises out of analyze_store or stops
\* the remaining images and stores from being analyzed.
C11_RootAlwaysCompletes ==
    mode = "root" => pc # "raised"

\* The row of the file a call was made on.
RowOfCall(c) ==
    CHOOSE r \in AllRows : r.store_id = c.store_id /\ r.filename = c.filename

\* What validate_image returned to the call, as its row records it.
ValidatedAs(c, is_valid, reject_reason) ==
    /\ RowOfCall(c).is_valid = is_valid
    /\ RowOfCall(c).reject_reason = reject_reason

\* C12: validate_image checks in a fixed order: an empty file gives
\* (false, "zero_byte") and is not opened for decoding; a non-empty file that
\* does not decode gives (false, "unreadable"); any other gives (true, "").
\* So is_valid is true exactly when the reason is empty, and the reason is
\* one of "", "zero_byte" and "unreadable".
C12_ValidateImageOrder ==
    \A i \in 1..Len(calls) :
        calls[i].op = "validate" =>
            /\ calls[i].content = "zero" =>
                  /\ ValidatedAs(calls[i], FALSE, "zero_byte")
                  /\ \A j \in 1..Len(calls) :
                        (calls[j].op = "decode" /\ calls[j].store_id = calls[i].store_id)
                            => calls[j].filename # calls[i].filename
            /\ calls[i].content = "broken" =>
                  ValidatedAs(calls[i], FALSE, "unreadable")
            /\ calls[i].content = "image" => ValidatedAs(calls[i], TRUE, "")
            /\ RowOfCall(calls[i]).is_valid <=> RowOfCall(calls[i]).reject_reason = ""
            /\ RowOfCall(calls[i]).reject_reason \in {"", "zero_byte", "unreadable"}

\* C12's case: a finished store whose three files were validated, one empty,
\* one that does not decode and one image.
C12_Witness ==
    /\ pc = "done"
    /\ \A content \in Contents :
          \E i \in 1..Len(calls) :
             /\ calls[i].op = "validate"
             /\ calls[i].content = content
             /\ ValidatedAs(calls[i], content = "image",
                            IF content = "zero" THEN "zero_byte"
                            ELSE IF content = "broken" THEN "unreadable" ELSE "")

\* C13: build_detector selects by the type name alone and does not raise:
\* "mock" gives the mock detector and an empty warning; a name other than
\* "mock" and "yolo" gives the unavailable stub and a non-empty warning;
\* "yolo" whose construction fails gives the unavailable stub whose
\* detection_error, on every image, is the failure reason, and the warning
\* returned is that same string.
C13_BuildDetectorFallback ==
    mode = "root" =>
        /\ detector.kind \in {"mock", "yolo", "unavailable"}
        /\ args.detector_type = "mock" =>
              detector.kind = "mock" /\ detector_warning = ""
        /\ args.detector_type \notin {"mock", "yolo"} =>
              detector.kind = "unavailable" /\ detector_warning # ""
        /\ (args.detector_type = "yolo" /\ detector.kind # "yolo") =>
              /\ detector.kind = "unavailable"
              /\ detector_warning # ""
              /\ detector.reason = detector_warning
              /\ \A i \in 1..Len(calls) :
                    calls[i].op = "detect" =>
                        RowOfCall(calls[i]).detection_error = detector_warning

\* C13's case: YOLO could not be constructed, and the stub built in its
\* place has been asked to detect on a valid image.
C13_Witness ==
    /\ mode = "root"
    /\ args.detector_type = "yolo"
    /\ detector.kind = "unavailable"
    /\ \E i \in 1..Len(calls) :
          /\ calls[i].op = "detect"
          /\ RowOfCall(calls[i]).is_valid
          /\ RowOfCall(calls[i]).detection_error = detector_warning

\* The rows and summaries of a run with the unavailable stub are as C14
\* says: no people, a detection_error on every valid image, nothing relevant,
\* and the files still counted.
UnavailableResults ==
    /\ \A r \in AllRows :
          (r.reject_reason # "bad_filename" /\ r.is_valid) =>
              /\ r.person_count = 0
              /\ r.detection_error # ""
              /\ ~r.relevant
    /\ \A res \in AllResults :
          /\ res.summary_row.relevant_images = 0
          /\ res.summary_row.total_people = 0
          /\ res.summary_row.top_camera_hotspot = EmptyStr
          /\ res.summary_row.peak_time_bucket = EmptyStr
          /\ res.summary_row.total_images = Len(res.image_insights)
          /\ res.summary_row.valid_images =
                Cardinality({r \in Range(res.image_insights) : r.is_valid})

\* C14: when the detector is unavailable (unsupported type or failed YOLO
\* construction), analyze_root still analyzes every discovered store and
\* returns, with a non-empty detector_warning, and its rows and summaries
\* count the files but no people.
C14_UnavailableStillCompletes ==
    (mode = "root" /\ detector.kind = "unavailable") =>
        /\ pc # "raised"
        /\ detector_warning # ""
        /\ UnavailableResults
        /\ pc = "done" =>
              /\ output.detector_warning # ""
              /\ DOMAIN output.stores = {d.name : d \in Range(_list_store_dirs(fs)[1])}

\* analyze_root has returned from a root whose one store holds exactly the
\* two images "09-57-27_D02-1.jpg" and "09-57-44_D03-1.jpg", both valid,
\* analyzed with the mock detector.
TwoImageScenario ==
    /\ fs = Dir(RootName, {Dir(StoreOne, {File(FirstImage), File(SecondImage)})})
    /\ mode = "root"
    /\ detector.kind = "mock"
    /\ pc = "done"
    /\ \A r \in Range(output.stores[StoreOne].image_insights) : r.is_valid

\* The rows and hotspots of the scenario's store, given what the second
\* image's row and camera hold.
ScenarioResult(second_relevant, second_count, second_avg) ==
    LET rows == output.stores[StoreOne].image_insights
        hotspots == output.stores[StoreOne].camera_hotspots
    IN  /\ Len(rows) = 2
        /\ rows[1].filename = FirstImage
        /\ rows[1].relevant /\ rows[1].person_count = 2
        /\ rows[2].filename = SecondImage
        /\ rows[2].relevant = second_relevant
        /\ rows[2].person_count = second_count
        /\ Len(hotspots) = 2
        /\ hotspots[1].camera_id = D02 /\ hotspots[1].hotspot_rank = 1
        /\ hotspots[1].avg_people_per_relevant_image = 2000
        /\ hotspots[2].camera_id = D03 /\ hotspots[2].hotspot_rank = 2
        /\ hotspots[2].avg_people_per_relevant_image = second_avg

\* C15, as stated: in the scenario the mock detector reports 2 people for
\* the first file and 0 for the second, so the first row is relevant with
\* person_count 2, the second is not relevant, and the hotspots are D02 with
\* rank 1 and average 2.0 and D03 with rank 2 and average 0.0.
C15_SecondImageEmpty ==
    TwoImageScenario => ScenarioResult(FALSE, 0, 0)

\* C15, amended: the mock detector reports 2 people for both files, so both
\* rows are relevant with person_count 2, and the hotspots are D02 with rank
\* 1 and average 2.0 and D03 with rank 2 and average 2.0.
C15_BothImagesTwoPeople ==
    TwoImageScenario => ScenarioResult(TRUE, 2, 2000)

\* C15's case: the scenario has been analyzed and its store reported.
C15_Witness ==
    /\ TwoImageScenario
    /\ Len(output.stores[StoreOne].camera_hotspots) = 2
    /\ output.stores[StoreOne].summary_row.relevant_images = 2

\* The hotspot rows of a result that have hotspot_rank 1.
RankOne(res) == {h \in Range(res.camera_hotspots) : h.hotspot_rank = 1}

\* C16: in every store summary, top_camera_hotspot is the camera_id of the
\* hotspot row of rank 1 when that row has relevant_images > 0, and the
\* empty string otherwise, the empty hotspot set included.
C16_TopCameraIsRankOne ==
    \A res \in AllResults :
        /\ \A h \in RankOne(res) :
              res.summary_row.top_camera_hotspot =
                  IF h.relevant_images > 0 THEN h.camera_id ELSE EmptyStr
        /\ RankOne(res) = {} => res.summary_row.top_camera_hotspot = EmptyStr

\* C16's case: one run reports a store whose rank-1 camera has a relevant
\* image and is named, and a store whose rank-1 camera has none and is not.
C16_Witness ==
    /\ pc = "done"
    /\ \E a, b \in AllResults :
          /\ \E h \in RankOne(a) :
                /\ h.relevant_images > 0
                /\ a.summary_row.top_camera_hotspot = h.camera_id
          /\ \E h \in RankOne(b) :
                /\ h.relevant_images = 0
                /\ b.summary_row.top_camera_hotspot = EmptyStr

\* The relevant rows of a result, the buckets their timestamps fall in, and
\* the people counted in a bucket.
RelevantOf(res) == {r \in Range(res.image_insights) : r.relevant}

BucketsOf(res) == {Bucket(r.timestamp, args.time_bucket_minutes) : r \in RelevantOf(res)}

RECURSIVE PeopleIn(_)
PeopleIn(rows) ==
    IF rows = {} THEN 0
    ELSE LET r == CHOOSE x \in rows : TRUE
         IN  r.person_count + PeopleIn(rows \ {r})

BucketTotal(res, b) ==
    PeopleIn({r \in RelevantOf(res) : Bucket(r.timestamp, args.time_bucket_minutes) = b})

\* The bucket is the earliest of those with the largest sum.
IsPeak(res, b) ==
    /\ b \in BucketsOf(res)
    /\ \A o \in BucketsOf(res) :
          /\ BucketTotal(res, o) <= BucketTotal(res, b)
          /\ BucketTotal(res, o) = BucketTotal(res, b) => b <= o

\* C17: peak_time_bucket is the "HH:MM" start of the bucket, of the width
\* configured, in which the relevant rows count the most people, the
\* earliest one when several tie; it is empty exactly when the store has no
\* relevant row, and the rows that are not relevant do not change it.
C17_PeakBucketEarliestLargest ==
    \A res \in AllResults :
        /\ res.summary_row.peak_time_bucket = EmptyStr <=> RelevantOf(res) = {}
        /\ RelevantOf(res) # {} =>
              \E b \in BucketsOf(res) :
                 /\ IsPeak(res, b)
                 /\ res.summary_row.peak_time_bucket = FormatHM(b)
        /\ res.summary_row.peak_time_bucket =
              _peak_time_bucket(RelevantRows(res.image_insights),
                                args.time_bucket_minutes)

\* C17's case: a store where two buckets tie on the largest sum and the
\* earlier is reported, among rows one of which is not relevant.
C17_Witness ==
    \E res \in AllResults :
        /\ \E b, o \in BucketsOf(res) :
              /\ b < o
              /\ IsPeak(res, b)
              /\ BucketTotal(res, o) = BucketTotal(res, b)
              /\ res.summary_row.peak_time_bucket = FormatHM(b)
        /\ \E r \in Range(res.image_insights) : ~r.relevant /\ ~r.timestamp.isNaT

\* The store was loaded as it was exported: as many image-insight rows, the
\* same relevant flag in each, and the same hotspot_rank for each camera.
SameStore(before, after) ==
    /\ Len(after.image_insights) = Len(before.image_insights)
    /\ \A i \in 1..Len(before.image_insights) :
          after.image_insights[i].relevant = before.image_insights[i].relevant
    /\ {<<h.camera_id, h.hotspot_rank>> : h \in Range(after.camera_hotspots)}
          = {<<h.camera_id, h.hotspot_rank>> : h \in Range(before.camera_hotspots)}

\* C18: for every AnalysisOutput of analyze_root, whatever the store
\* directories are named (names that read as numbers, such as "001",
\* included), export_analysis followed by load_exports on the same directory
\* gives the same store ids, and for each store as many image-insight rows,
\* the same relevant flags and the same hotspot ranks.
C18_ExportLoadRoundTrip ==
    pc = "loaded" =>
        /\ DOMAIN loaded.stores = DOMAIN output.stores
        /\ \A id \in DOMAIN output.stores \cap DOMAIN loaded.stores :
              SameStore(output.stores[id], loaded.stores[id])

\* The store directories analyze_root discovered.
DiscoveredDirs == Range(_list_store_dirs(fs)[1])

\* The rows a store's result may hold, given its own directory, the
\* detector and the reference day: one for each of its image files.
OwnRows(dir, rows) ==
    /\ Len(rows) = Len(_iter_store_images(dir))
    /\ {r.filename : r \in Range(rows)}
          = {f.name : f \in Range(_iter_store_images(dir))}
    /\ \A r \in Range(rows) :
          \E o \in ImageOutcomes(dir.name, r.filename, args.reference_day, detector) :
             ~o.raised /\ o.rows = <<r>>

\* C19: within one analyze_root run, the image insights, camera hotspots and
\* summary of a store depend only on that store's own directory (and the
\* detector, threshold, reference day and bucket width): no file of another
\* store, and no order of processing, changes them.  So every store's result
\* is made from its own rows alone, and no store is left without its result
\* because of a file in another store.
C19_StoreResultsIndependent ==
    mode = "root" =>
        /\ \A d \in DiscoveredDirs :
              d.name \in DOMAIN store_results =>
                 /\ OwnRows(d, store_results[d.name].image_insights)
                 /\ store_results[d.name] =
                       StoreResult(d.name, store_results[d.name].image_insights,
                                   args.time_bucket_minutes)
        /\ pc = "raised" =>
              \A d \in DiscoveredDirs :
                 d.name # cur.store_id => d.name \in DOMAIN store_results

-----------------------------------------------------------------------------
(* Properties of the store registry, under SpecRegistry *)

\* No two store records have emails equal ignoring case, and every stored
\* email is trimmed and lower-cased.
EmailsUnique ==
    /\ \A a, b \in stores_table : Lower(a.email) = Lower(b.email) => a = b
    /\ \A r \in stores_table : r.email = Lower(Strip(r.email))

\* get_store_by_email, called with an email that some store record holds in
\* another casing, returned that record.
LookupFinds ==
    registry_call.op = "get_store_by_email" =>
        \A r \in stores_table :
            Lower(Strip(registry_call.email)) = r.email =>
                registry_call.outcome = Returned(<<r>>)

\* The step is an upsert_store whose email was linked to another store_id.
UpsertOfLinkedEmail ==
    /\ registry_call'.op = "upsert_store"
    /\ \E r \in stores_table :
          /\ Lower(r.email) = Lower(Strip(registry_call'.email))
          /\ r.store_id # Strip(registry_call'.store_id)

\* C20: store emails are unique whatever their case: after any sequence of
\* upsert_store calls no two store records have emails equal ignoring case,
\* every stored email is trimmed and lower-cased, and get_store_by_email
\* finds the store for any casing of its email; an upsert_store whose email
\* is linked to a different store_id raises ValueError, changes no store
\* record and adds none.
C20_EmailUniqueIgnoringCase ==
    /\ [](EmailsUnique /\ LookupFinds)
    /\ [][UpsertOfLinkedEmail =>
            /\ registry_call'.outcome = Raised("ValueError")
            /\ stores_table' = stores_table]_vars

\* C20's case: with two stores registered, an upsert_store of a third email
\* casing linked to the other store was refused, and a lookup in another
\* casing is answered.
C20_Witness ==
    /\ Cardinality(stores_table) = 2
    /\ registry_call.op = "upsert_store"
    /\ registry_call.outcome = Raised("ValueError")
    /\ registry_call.email # Lower(Strip(registry_call.email))
    /\ Strip(registry_call.store_name) # EmptyStr
    /\ \E r \in stores_table :
          /\ r.email = Lower(Strip(registry_call.email))
          /\ r.store_id # Strip(registry_call.store_id)
          /\ Strip(registry_call.store_id) # EmptyStr

\* The store ids registered.
Registered == {r.store_id : r \in stores_table}

\* Every employee record references a registered store and an image file
\* that exists.
EmployeesOfRegisteredStores ==
    \A i \in 1..Len(employees) :
        /\ employees[i].store_id \in Registered
        /\ employees[i].image_path \in asset_files

\* The step is an add_employee_image call.
AddEmployeeStep == registry_call'.op = "add_employee_image"

\* C21: add_employee_image succeeds only for a registered store: for a
\* store_id not in the registry it raises ValueError, writes no image file
\* and inserts no employee record; when it succeeds exactly one employee
\* record is added, which references that store and whose image file
\* exists.  So after any sequence of upsert_store and add_employee_image
\* calls every employee record's store_id is a registered store.
C21_EmployeeOfRegisteredStore ==
    /\ []EmployeesOfRegisteredStores
    /\ [][(AddEmployeeStep /\ Strip(registry_call'.store_id) \notin Registered) =>
            /\ registry_call'.outcome = Raised("ValueError")
            /\ employees' = employees
            /\ asset_files' = asset_files]_vars
    /\ [][(AddEmployeeStep /\ registry_call'.outcome.raised = "") =>
            /\ Strip(registry_call'.store_id) \in Registered
            /\ Len(employees') = Len(employees) + 1
            /\ SubSeq(employees', 1, Len(employees)) = employees
            /\ employees'[Len(employees')].store_id = Strip(registry_call'.store_id)
            /\ employees'[Len(employees')].image_path = registry_call'.outcome.value
            /\ registry_call'.outcome.value \in asset_files'
            /\ Cardinality(asset_files') = Cardinality(asset_files) + 1]_vars

\* C21's case: an upload for a registered store has succeeded, and a later
\* upload for a store_id not registered was refused.
C21_Witness ==
    /\ Len(employees) = 1
    /\ employees[1].store_id \in Registered
    /\ employees[1].image_path \in asset_files
    /\ registry_call.op = "add_employee_image"
    /\ registry_call.outcome = Raised("ValueError")
    /\ Strip(registry_call.store_id) # EmptyStr
    /\ Strip(registry_call.employee_name) # EmptyStr
    /\ Strip(registry_call.store_id) \notin Registered

-----------------------------------------------------------------------------
(* Further properties of a whole run, under Spec *)

\* C22: every DetectionResult that analyze_root with the mock detector
\* records in a row, for any filename and any confidence threshold of the
\* caller's, has person_count in 0..3, the sum of the filename's character
\* codes modulo 4, and max_person_conf within [0, 1] (here in thousandths),
\* which is 0 when person_count is 0.
C22_MockResultInRange ==
    (mode = "root" /\ detector.kind = "mock") =>
        \A i \in 1..Len(calls) :
            calls[i].op = "detect" =>
                LET r == RowOfCall(calls[i])
                IN  /\ r.person_count \in 0..3
                    /\ r.person_count = SumOrd(r.filename) % 4
                    /\ r.max_person_conf >= 0
                    /\ r.max_person_conf <= 1000
                    /\ r.person_count = 0 => r.max_person_conf = 0

\* The relevant rows of a camera in a result.
RelevantOfCamera(res, camera_id) ==
    {r \in Range(res.image_insights) : r.relevant /\ r.camera_id = camera_id}

\* The counts of every hotspot row are those of the camera's relevant rows,
\* and every camera seen in a row has a hotspot row.
HotspotCounts(res) ==
    /\ \A h \in Range(res.camera_hotspots) :
          /\ h.relevant_images = Cardinality(RelevantOfCamera(res, h.camera_id))
          /\ h.total_people = PeopleIn(RelevantOfCamera(res, h.camera_id))
          /\ h.relevant_images = 0 => h.avg_people_per_relevant_image = 0
    /\ \A r \in Range(res.image_insights) :
          r.camera_id # EmptyStr =>
              \E h \in Range(res.camera_hotspots) : h.camera_id = r.camera_id

\* C23, as stated: for every camera of a store's hotspot set,
\* relevant_images is the number of the camera's relevant rows, total_people
\* the sum of person_count over those rows only, and
\* avg_people_per_relevant_image (in thousandths) is exactly total_people /
\* relevant_images when relevant_images > 0 and 0 otherwise; a camera seen
\* only in non-relevant rows appears with zeros.
C23_AverageExact ==
    \A res \in AllResults :
        /\ HotspotCounts(res)
        /\ \A h \in Range(res.camera_hotspots) :
              h.relevant_images > 0 =>
                 h.avg_people_per_relevant_image * h.relevant_images
                    = 1000 * h.total_people

\* C23, amended: the same, the average being total_people / relevant_images
\* rounded to 3 decimal places.
C23_AverageRounded ==
    \A res \in AllResults :
        /\ HotspotCounts(res)
        /\ \A h \in Range(res.camera_hotspots) :
              h.relevant_images > 0 =>
                 LET error == h.avg_people_per_relevant_image * h.relevant_images
                              - 1000 * h.total_people
                 IN  2 * error <= h.relevant_images /\ -2 * error <= h.relevant_images

\* C23's case: a store where one camera has three relevant images and four
\* people, an average that does not end at three decimals, beside a camera
\* seen only in a row that is not relevant.
C23_Witness ==
    \E res \in AllResults :
        \E h, z \in Range(res.camera_hotspots) :
            /\ h.relevant_images = 3 /\ h.total_people = 4
            /\ h.avg_people_per_relevant_image = 1333
            /\ z.relevant_images = 0 /\ z.total_people = 0
            /\ z.avg_people_per_relevant_image = 0

\* Two calls were made on the same file of the same store.
SameFile(c, d) == c.store_id = d.store_id /\ c.filename = d.filename

\* C24: per image, analyze_store parses, then validates, then detects; the
\* detector is invoked at most once per image and only after validation
\* returned valid; a parsed image that fails validation gets a row with
\* is_valid false, relevant false, person_count 0, max_person_conf 0, an
\* empty detection_error and reject_reason "zero_byte" or "unreadable", and
\* is never passed to the detector.
C24_ParseValidateDetect ==
    \A i \in 1..Len(calls) :
        /\ calls[i].op = "validate" =>
              /\ i > 1 /\ calls[i - 1].op = "parse" /\ SameFile(calls[i - 1], calls[i])
              /\ parse_filename(calls[i].filename, args.reference_day,
                                args.reference_day).tag = "parsed"
              /\ \A j \in 1..Len(calls) :
                    (calls[j].op = "parse" /\ SameFile(calls[j], calls[i])) => j < i
        /\ calls[i].op = "detect" =>
              /\ \E j \in 1..(i - 1) : /\ calls[j].op = "validate"
                                        /\ SameFile(calls[j], calls[i])
                                        /\ ValidatedAs(calls[j], TRUE, "")
              /\ \A j \in 1..Len(calls) :
                    (calls[j].op = "detect" /\ SameFile(calls[j], calls[i])) => j = i
              /\ \A j \in 1..Len(calls) :
                    (calls[j].op \in {"parse", "validate", "decode"}
                        /\ SameFile(calls[j], calls[i])) => j < i
        /\ (calls[i].op = "validate" /\ calls[i].content # "image") =>
              /\ ~RowOfCall(calls[i]).is_valid
              /\ ~RowOfCall(calls[i]).relevant
              /\ RowOfCall(calls[i]).person_count = 0
              /\ RowOfCall(calls[i]).max_person_conf = 0
              /\ RowOfCall(calls[i]).detection_error = ""
              /\ RowOfCall(calls[i]).reject_reason \in {"zero_byte", "unreadable"}
              /\ \A j \in 1..Len(calls) :
                    calls[j].op = "detect" => ~SameFile(calls[j], calls[i])

\* C24's case: a finished store in which one parsed file failed validation
\* and got its row without a detection, and another was validated and then
\* passed to the detector.
C24_Witness ==
    /\ pc = "done"
    /\ \E i, j, k \in 1..Len(calls) :
          /\ calls[i].op = "validate" /\ calls[i].content # "image"
          /\ ~RowOfCall(calls[i]).is_valid
          /\ calls[j].op = "validate" /\ calls[j].content = "image"
          /\ calls[k].op = "detect" /\ SameFile(calls[j], calls[k]) /\ j < k

\* The directories analyze_store was or will be called on in this run.
AnalyzedDirs == IF mode = "root" THEN DiscoveredDirs ELSE Subdirs

\* The files of a directory whose extension, compared without case, is one
\* of the image extensions.
ImageFilesOf(dir) ==
    {e \in dir.children : e.kind = "file" /\ HasImageSuffix(e.name)}

\* The name ends in the lower-case literal ".jpg".
EndsInDotJpg(name) ==
    Len(name) >= 4 /\ SubSeq(name, Len(name) - 3, Len(name)) = DotJpg

\* C25: a store's result has exactly one row for each file of the store
\* directory whose extension, compared case-insensitively, is jpg, jpeg,
\* png, bmp or webp, and none for other files, and total_images is that
\* number of files; a file among them whose name does not end in the
\* lower-case ".jpg" has reject_reason "bad_filename" and is never
\* validated, detected, counted in valid_images or given a camera.
C25_OneRowPerImageFile ==
    /\ \A res \in AllResults : \A dir \in AnalyzedDirs :
          dir.name = res.summary_row.store_id =>
             /\ Len(res.image_insights) = Cardinality(ImageFilesOf(dir))
             /\ {r.filename : r \in Range(res.image_insights)}
                   = {e.name : e \in ImageFilesOf(dir)}
             /\ res.summary_row.total_images = Cardinality(ImageFilesOf(dir))
             /\ res.summary_row.valid_images
                   <= Cardinality({e \in ImageFilesOf(dir) : EndsInDotJpg(e.name)})
    /\ \A r \in AllRows :
          ~EndsInDotJpg(r.filename) =>
             /\ r.reject_reason = "bad_filename"
             /\ ~r.is_valid
             /\ r.camera_id = EmptyStr
             /\ r.person_count = 0
    /\ \A i \in 1..Len(calls) :
          ~EndsInDotJpg(calls[i].filename) => calls[i].op = "parse"

\* C25's case: a finished store whose directory held a file named ".JPG",
\* which has its bad_filename row, a file that is no image, which has no
\* row, and an image that was validated.
C25_Witness ==
    /\ pc = "done"
    /\ \E res \in AllResults : \E dir \in AnalyzedDirs :
          /\ dir.name = res.summary_row.store_id
          /\ \E e \in dir.children : e.kind = "file" /\ ~HasImageSuffix(e.name)
          /\ \E r \in Range(res.image_insights) :
                /\ HasImageSuffix(r.filename) /\ ~EndsInDotJpg(r.filename)
                /\ r.reject_reason = "bad_filename"
          /\ \E r \in Range(res.image_insights) : r.is_valid
          /\ res.summary_row.total_images = 2

\* The sums of total_people and of relevant_images over hotspot rows.
RECURSIVE HotspotPeople(_)
HotspotPeople(hotspots) ==
    IF hotspots = {} THEN 0
    ELSE LET h == CHOOSE x \in hotspots : TRUE
         IN  h.total_people + HotspotPeople(hotspots \ {h})

RECURSIVE HotspotImages(_)
HotspotImages(hotspots) ==
    IF hotspots = {} THEN 0
    ELSE LET h == CHOOSE x \in hotspots : TRUE
         IN  h.relevant_images + HotspotImages(hotspots \ {h})

\* C26, as stated: for every store result and any detector (one that returns
\* person_count > 0 together with a detection_error included), the summary's
\* total_people is the sum of total_people over the store's hotspot rows and
\* its relevant_images the sum of relevant_images over those rows.
C26_SummaryMatchesHotspots ==
    \A res \in AllResults :
        /\ res.summary_row.total_people = HotspotPeople(Range(res.camera_hotspots))
        /\ res.summary_row.relevant_images = HotspotImages(Range(res.camera_hotspots))

\* C26, amended: the summary's relevant_images is the sum of relevant_images
\* over the hotspot rows; its total_people is the sum of person_count over
\* all of the store's rows, which is the hotspot rows' total_people plus the
\* person_count of the rows that are not relevant, so the two agree exactly
\* when no row that is not relevant has a person_count above 0.
C26_SummaryCountsAllRows ==
    \A res \in AllResults :
        LET others == {r \in Range(res.image_insights) : ~r.relevant}
        IN  /\ res.summary_row.relevant_images
                  = HotspotImages(Range(res.camera_hotspots))
            /\ res.summary_row.total_people = PeopleIn(Range(res.image_insights))
            /\ res.summary_row.total_people
                  = HotspotPeople(Range(res.camera_hotspots)) + PeopleIn(others)
            /\ res.summary_row.total_people = HotspotPeople(Range(res.camera_hotspots))
                  <=> \A r \in others : r.person_count = 0

\* C26's case: a store with a relevant image and an image whose detection
\* gave people together with an error, so that the summary counts more
\* people than the hotspot rows.
C26_Witness ==
    \E res \in AllResults :
        /\ \E r \in Range(res.image_insights) : r.relevant
        /\ \E r \in Range(res.image_insights) :
              r.person_count > 0 /\ r.detection_error # ""
        /\ res.summary_row.total_people > HotspotPeople(Range(res.camera_hotspots))
        /\ HotspotPeople(Range(res.camera_hotspots)) > 0

\* C27: in every store result, every camera with a relevant image has a
\* smaller hotspot_rank than every camera with none; and top_camera_hotspot
\* is non-empty exactly when the summary's relevant_images is above 0,
\* which is exactly when peak_time_bucket is non-empty.
C27_RelevantCamerasRankFirst ==
    \A res \in AllResults :
        /\ \A h, z \in Range(res.camera_hotspots) :
              (h.relevant_images > 0 /\ z.relevant_images = 0)
                  => h.hotspot_rank < z.hotspot_rank
        /\ res.summary_row.top_camera_hotspot # EmptyStr
              <=> res.summary_row.relevant_images > 0
        /\ res.summary_row.peak_time_bucket # EmptyStr
              <=> res.summary_row.relevant_images > 0

\* C27's case: a store with a camera that has a relevant image and a camera
\* whose name sorts before it and has none, whose summary names a top camera
\* and a peak bucket.
C27_Witness ==
    \E res \in AllResults :
        /\ \E h, z \in Range(res.camera_hotspots) :
              /\ h.relevant_images > 0 /\ z.relevant_images = 0
              /\ StrLess(z.camera_id, h.camera_id)
              /\ h.hotspot_rank < z.hotspot_rank
        /\ res.summary_row.top_camera_hotspot # EmptyStr
        /\ res.summary_row.peak_time_bucket # EmptyStr

-----------------------------------------------------------------------------
(* Properties of repeated exports into one directory, under SpecExport *)

\* C28: after any sequence of export_analysis calls into the same directory,
\* load_exports returns exactly the stores of the most recent export, with
\* that export's rows: files left by an earlier export for a store that the
\* latest summary does not list are not loaded; and when no summary file
\* exists what is loaded has no stores and an empty summary.
C28_LoadsLatestExport ==
    /\ pc = "loaded" =>
          /\ DOMAIN loaded.stores = DOMAIN output.stores
          /\ \A id \in DOMAIN output.stores \cap DOMAIN loaded.stores :
                SameStore(output.stores[id], loaded.stores[id])
    /\ (loaded # NoOutput /\ SummaryFile \notin DOMAIN out_dir) =>
          /\ DOMAIN loaded.stores = {}
          /\ loaded.all_stores_summary = << >>

-----------------------------------------------------------------------------
(* Properties of concurrent upsert_store calls, under SpecSessions *)

\* The session's write lost a race: the statement it was about to run,
\* after checks that found nothing against it, was refused.
LostRace(s) ==
    /\ sessions[s].at = "write"
    /\ sessions'[s].at = "done"
    /\ sessions'[s].outcome = Raised("IntegrityError")

\* C29: under any interleaving of upsert_store calls of concurrent sessions,
\* the checks and the write of a call being separate steps, no state has two
\* store records with the same store_id or with emails equal ignoring case,
\* and a call that loses such a race fails without modifying the record the
\* winner wrote.
C29_ConcurrentUpsertsKeepUnique ==
    /\ [](\A a, b \in stores_table :
            (a.store_id = b.store_id \/ Lower(a.email) = Lower(b.email)) => a = b)
    /\ [][\A s \in Sessions :
            /\ LostRace(s) => stores_table' = stores_table
            /\ (sessions[s].at = "write" /\ sessions'[s].at = "done"
                  /\ sessions'[s].outcome.raised = "") =>
                     sessions[s].record \in stores_table']_vars

\* C29's case: both sessions passed their checks for the same new store_id
\* with different names; one wrote its record, the other's write was
\* refused, and the record in the table is the winner's.
C29_Witness ==
    \E s, t \in Sessions :
        /\ sessions[s].at = "done" /\ sessions[t].at = "done"
        /\ sessions[s].outcome = Raised("IntegrityError")
        /\ sessions[s].row_is_none
        /\ sessions[t].outcome.raised = ""
        /\ sessions[t].record.store_id = sessions[s].record.store_id
        /\ sessions[t].record # sessions[s].record
        /\ sessions[t].record \in stores_table
        /\ sessions[s].record \notin stores_table

====
